---- MODULE Spec2Model ----
(***************************************************************************)
(* Reconciliation / upsert engine, embedding maintenance and search of     *)
(* the supermarket scraper.                                                *)
(*                                                                         *)
(* The persisted store is four tables (stores, categories, manufacturers,  *)
(* products).  A row's id is its index in the table's sequence.  Text is   *)
(* a tuple of one-character strings, so that lower(), replace() and        *)
(* strip() are computed character by character as the code computes them.  *)
(*                                                                         *)
(* Spec      one scraper process: Scrapy calls DatabasePipeline.process_   *)
(*           item synchronously, one item at a time.                       *)
(* SpecConc  two scraper processes (workers), each with its own pipeline   *)
(*           object (own identity caches, own session) on one database;    *)
(*           every SQL statement / commit is one atomic step.              *)
(* SpecRun   one scraper process with the stages before the database      *)
(*           stage (validation, duplicate detection, enrichment), under    *)
(*           each of the settings modules.                                 *)
(* SpecEmbed the scraper and the embedding maintenance job in turn.        *)
(* SpecSearch the search service (lexical, hybrid, similar products) on    *)
(*           every stored catalogue of MaxProducts products.               *)
(* SpecCache one scraper process on a database from which other clients    *)
(*           delete rows the identity caches still name.                   *)
(* SpecParse the parser utilities (PriceParser), the enrichment stage and  *)
(*           the session scope, each called once on each of its inputs.    *)
(***************************************************************************)
EXTENDS Integers, Sequences, FiniteSets, TLC

(* ------------------------------ bounds -------------------------------- *)

\* number of items one scraper process hands to the database pipeline
MaxItems == 2

(* --------------------------- null values ------------------------------ *)

\* NULL foreign key / no entity (Python None for an entity or an id)
NoId == 0
\* Python None for price_amount (prices are decimals with two places,
\* held as cents)
NoPrice == -1
\* NULL timestamp (the clock starts at 1)
NoTime == 0
\* None / empty text
NoText == << >>

(* ------------------------------ text ---------------------------------- *)

\* str.lower() on one character
LowerChar(c) ==
  CASE c = "A" -> "a" [] c = "B" -> "b" [] c = "D" -> "d" [] c = "E" -> "e"
    [] c = "M" -> "m" [] c = "O" -> "o" [] c = "T" -> "t"
    [] c = "C" -> "c" [] c = "F" -> "f" [] c = "G" -> "g" [] c = "H" -> "h"
    [] c = "I" -> "i" [] c = "J" -> "j" [] c = "K" -> "k" [] c = "L" -> "l"
    [] c = "N" -> "n" [] c = "P" -> "p" [] c = "Q" -> "q" [] c = "R" -> "r"
    [] c = "S" -> "s" [] c = "U" -> "u" [] c = "V" -> "v" [] c = "W" -> "w"
    [] c = "X" -> "x" [] c = "Y" -> "y" [] c = "Z" -> "z"
    [] c = "Ä" -> "ä" [] c = "Ö" -> "ö" [] c = "Ü" -> "ü"
    [] OTHER -> c

\* str.lower()
Lower(s) == [i \in DOMAIN s |-> LowerChar(s[i])]

\* str.replace(a, b) for one-character a and b
Replace(s, a, b) == [i \in DOMAIN s |-> IF s[i] = a THEN b ELSE s[i]]

RECURSIVE LStrip(_)
LStrip(s) == IF s # << >> /\ Head(s) = " " THEN LStrip(Tail(s)) ELSE s

RECURSIVE RStrip(_)
RStrip(s) ==
  IF s # << >> /\ s[Len(s)] = " " THEN RStrip(SubSeq(s, 1, Len(s) - 1)) ELSE s

\* str.strip()
Strip(s) == RStrip(LStrip(s))

RECURSIVE Join(_)
\* ' '.join(parts)
Join(parts) ==
  IF parts = << >> THEN << >>
  ELSE IF Len(parts) = 1 THEN parts[1]
  ELSE parts[1] \o <<" ">> \o Join(Tail(parts))

(* ------------------------- the scraped records ------------------------ *)

Obst == <<"O", "b", "s", "t">>
Brot == <<"B", "r", "o", "t">>
Bio == <<"B", "i", "o">>

\* category breadcrumbs as they leave the validation stage (cleaned text)
CategoryPaths == { << >>, <<Obst, Bio>>, <<Brot, Bio>> }

DrO == <<"D", "r", " ", "O">>
DrHyphenO == <<"D", "r", "-", "O">>

\* manufacturer_name of a record: absent, or one of two brand spellings
ManufacturerNames == { NoText, DrO, DrHyphenO }

\* store_name / store_slug as the spiders set them
StoreIdents == { [name |-> <<"E", "2", "4">>, slug |-> <<"e", "2", "4">>] }

ProductUrls == {"u1", "u2"}
ProductNames == { <<"M", "i", "l", "c", "h">> }
Prices == {NoPrice, 129, 149}

\* the items that reach DatabasePipeline.process_item
Records ==
  [ product_url : ProductUrls,
    name : ProductNames,
    price_amount : Prices,
    store : StoreIdents,
    category_path : CategoryPaths,
    manufacturer_name : ManufacturerNames ]

(* ----------------------- where the database fails --------------------- *)

\* no statement of process_item fails
NoFault == [at |-> "none", level |-> 0]

\* The first database statement of one step of process_item raises (lost
\* connection, statement timeout ...).  level is the 1-based position in
\* the category path for at = "category".
Faults ==
  { [at |-> a, level |-> 0] :
      a \in {"store", "manufacturer", "product", "search_text"} }
  \cup { [at |-> "category", level |-> 1], [at |-> "category", level |-> 2] }

\* the items during which a fault is injected: those that take every step
\* (a category path of two levels, a manufacturer, a price)
FaultRecords ==
  { r \in Records : /\ r.category_path = <<Obst, Bio>>
                    /\ r.manufacturer_name = DrO
                    /\ r.price_amount = 129 }

(* ------------------------------ queries ------------------------------- *)

\* .first(): the smallest id among the rows a query matches, or None
FirstId(hits) ==
  IF hits = {} THEN NoId ELSE CHOOSE i \in hits : \A j \in hits : i <= j

\* what is left at the id of a store, category or manufacturer that was
\* deleted from outside the scraper: ids are never given out again
DeletedRow == [name |-> NoText, slug |-> NoText]
DeletedCategory ==
  [name |-> NoText, slug |-> NoText, level |-> 0, parent_id |-> NoId,
   path |-> NoText]

\* a pipeline that takes the cached id without asking the database
Live_Trusted(table, id) == TRUE

\* session.query(model).filter_by(id=cached_id).first() is not None
Live(table, id) == id \in DOMAIN table /\ table[id].name # NoText

\* session.query(Store).filter_by(slug=store_slug).first()
StoreBySlug(stores, slug) ==
  FirstId({ i \in DOMAIN stores : stores[i].slug = slug })

\* session.query(Category).filter_by(slug=cat_slug, parent_id=...).first()
CategoryBySlugParent(categories, slug, parent) ==
  FirstId({ i \in DOMAIN categories : /\ categories[i].slug = slug
                                      /\ categories[i].parent_id = parent })

\* session.query(Manufacturer).filter_by(name=manufacturer_name).first()
ManufacturerByName(manufacturers, name) ==
  FirstId({ i \in DOMAIN manufacturers : manufacturers[i].name = name })

\* ProductRepository.get_by_url
get_by_url(products, url) ==
  FirstId({ i \in DOMAIN products : products[i].product_url = url })

(* ------------------------ uniqueness constraints ----------------------- *)

\* stores.slug is UNIQUE
StoreInsertOk(stores, row) ==
  \A i \in DOMAIN stores : stores[i].slug # row.slug

\* categories: UNIQUE (name, parent_id), where rows with a NULL parent_id
\* never conflict with each other, and UNIQUE (slug) over the whole table
CategoryInsertOk(categories, row) ==
  \A i \in DOMAIN categories :
    /\ ~(/\ row.parent_id # NoId
         /\ categories[i].parent_id = row.parent_id
         /\ categories[i].name = row.name)
    /\ categories[i].slug # row.slug

\* manufacturers.name is UNIQUE and manufacturers.slug is UNIQUE
ManufacturerInsertOk(manufacturers, row) ==
  \A i \in DOMAIN manufacturers :
    /\ manufacturers[i].name # row.name
    /\ manufacturers[i].slug # row.slug

\* products.product_url is UNIQUE
ProductInsertOk(products, row) ==
  \A i \in DOMAIN products : products[i].product_url # row.product_url

(* ------------------------- store resolution --------------------------- *)

\* store_slug = adapter.get('store_slug') or store_name.lower().replace(' ', '-')
StoreSlugOf(rec) ==
  IF rec.store.slug # NoText THEN rec.store.slug
  ELSE Replace(Lower(rec.store.name), " ", "-")

\* cache_key = f"{store_name}:{store_slug}"
StoreCacheKey(rec) == rec.store.name \o <<":">> \o StoreSlugOf(rec)

\* store_data of a new store
StoreRow(rec) == [name |-> rec.store.name, slug |-> StoreSlugOf(rec)]

\* DatabasePipeline._get_or_create_store: cache, then query by slug, then
\* create.  raised = TRUE: the exception leaves the method (it re-raises).
get_or_create_store(stores, cache, rec, fail) ==
  LET key == StoreCacheKey(rec)
      found == StoreBySlug(stores, StoreSlugOf(rec))
      row == StoreRow(rec)
      same == [stores |-> stores, cache |-> cache]
  IN IF fail.at = "store"
       THEN same @@ [id |-> NoId, raised |-> TRUE, created |-> FALSE]
     ELSE IF key \in DOMAIN cache /\ Live(stores, cache[key])
       THEN same @@ [id |-> cache[key], raised |-> FALSE, created |-> FALSE]
     ELSE IF found # NoId
       THEN [stores |-> stores, cache |-> (key :> found) @@ cache,
             id |-> found, raised |-> FALSE, created |-> FALSE]
     ELSE IF ~StoreInsertOk(stores, row)
       THEN same @@ [id |-> NoId, raised |-> TRUE, created |-> FALSE]
     ELSE [stores |-> Append(stores, row),
           cache |-> (key :> (Len(stores) + 1)) @@ cache,
           id |-> Len(stores) + 1, raised |-> FALSE, created |-> TRUE]

(* ------------------------ category resolution ------------------------- *)

\* 'slug': name.lower().replace(' ', '-').replace('/', '-')
CategorySlug(name) == Replace(Replace(Lower(name), " ", "-"), "/", "-")

\* category_hierarchy built from category_path (the item carries no
\* category_hierarchy field); level is the 0-based position
CategoryHierarchy(path) ==
  [i \in DOMAIN path |->
     [name |-> Strip(path[i]), slug |-> CategorySlug(path[i]), level |-> i - 1]]

\* cache_key = f"{cat_slug}:{cat_level}:{parent id or 'root'}"
CategoryCacheKey(info, parent) ==
  [slug |-> info.slug, level |-> info.level, parent |-> parent]

\* a path that leaves the parent's path out
CategoryPathOf_NameOnly(categories, info, parent) == info.name

\* category_data['path']
CategoryPathOf(categories, info, parent) ==
  IF parent # NoId
    THEN (IF categories[parent].path # NoText THEN categories[parent].path
          ELSE categories[parent].name) \o <<"/">> \o info.name
    ELSE info.name

\* category_data of a new category
CategoryRow(categories, info, parent) ==
  [name |-> info.name, slug |-> info.slug, level |-> info.level,
   parent_id |-> parent, path |-> CategoryPathOf(categories, info, parent)]

RECURSIVE CategoryWalk(_, _, _, _, _, _)
\* the loop of _get_or_create_category_hierarchy from level i on;
\* raised = TRUE: an exception reached the method's except clause
CategoryWalk(categories, cache, hier, i, parent, fail) ==
  IF i > Len(hier)
    THEN [categories |-> categories, cache |-> cache, id |-> parent,
          raised |-> FALSE]
  ELSE
    LET info == hier[i]
        key == CategoryCacheKey(info, parent)
        found == CategoryBySlugParent(categories, info.slug, parent)
        row == CategoryRow(categories, info, parent)
        stop == [categories |-> categories, cache |-> cache, id |-> NoId,
                 raised |-> TRUE]
    IN IF fail.at = "category" /\ fail.level = i THEN stop
       ELSE IF key \in DOMAIN cache /\ Live(categories, cache[key])
         THEN CategoryWalk(categories, cache, hier, i + 1, cache[key], fail)
       ELSE IF found # NoId
         THEN CategoryWalk(categories, (key :> found) @@ cache, hier, i + 1,
                           found, fail)
       ELSE IF ~CategoryInsertOk(categories, row) THEN stop
       ELSE CategoryWalk(Append(categories, row),
                         (key :> (Len(categories) + 1)) @@ cache, hier, i + 1,
                         Len(categories) + 1, fail)

\* what the except clause of _get_or_create_category_hierarchy does with
\* an exception: log it and return None (propagate = FALSE)
CategoryErrorPropagates == FALSE

\* DatabasePipeline._get_or_create_category_hierarchy: the leaf category,
\* None for an empty path.  raised = TRUE: the exception leaves the method.
get_or_create_category_hierarchy(categories, cache, rec, fail) ==
  LET w == CategoryWalk(categories, cache, CategoryHierarchy(rec.category_path),
                        1, NoId, fail)
  IN IF rec.category_path = << >>
       THEN [categories |-> categories, cache |-> cache, id |-> NoId,
             raised |-> FALSE, failed |-> FALSE]
     ELSE [categories |-> w.categories, cache |-> w.cache,
           id |-> IF w.raised THEN NoId ELSE w.id,
           raised |-> w.raised /\ CategoryErrorPropagates,
           failed |-> w.raised]

(* ---------------------- manufacturer resolution ----------------------- *)

\* 'slug': manufacturer_name.lower().replace(' ', '-')
ManufacturerSlug(name) == Replace(Lower(name), " ", "-")

\* manufacturer_data of a new manufacturer
ManufacturerRow(name) == [name |-> name, slug |-> ManufacturerSlug(name)]

\* what the except clause of _get_or_create_manufacturer does with an
\* exception of the query or the create: log it and return None
ManufacturerErrorPropagates == FALSE

\* DatabasePipeline._get_or_create_manufacturer.  The query that checks a
\* cached id runs before the try block, so its exception leaves the method;
\* the query by name and the create run inside it.
get_or_create_manufacturer(manufacturers, cache, rec, fail) ==
  LET name == rec.manufacturer_name
      found == ManufacturerByName(manufacturers, name)
      row == ManufacturerRow(name)
      same == [manufacturers |-> manufacturers, cache |-> cache]
      none == same @@ [id |-> NoId, raised |-> FALSE, failed |-> FALSE]
      caught == same @@ [id |-> NoId, raised |-> ManufacturerErrorPropagates,
                         failed |-> TRUE]
  IN IF name = NoText THEN none
     ELSE IF name \in DOMAIN cache /\ fail.at = "manufacturer"
       THEN same @@ [id |-> NoId, raised |-> TRUE, failed |-> TRUE]
     ELSE IF name \in DOMAIN cache /\ Live(manufacturers, cache[name])
       THEN same @@ [id |-> cache[name], raised |-> FALSE, failed |-> FALSE]
     ELSE IF fail.at = "manufacturer" THEN caught
     ELSE IF found # NoId
       THEN [manufacturers |-> manufacturers, cache |-> (name :> found) @@ cache,
             id |-> found, raised |-> FALSE, failed |-> FALSE]
     ELSE IF ~ManufacturerInsertOk(manufacturers, row) THEN caught
     ELSE [manufacturers |-> Append(manufacturers, row),
           cache |-> (name :> (Len(manufacturers) + 1)) @@ cache,
           id |-> Len(manufacturers) + 1, raised |-> FALSE, failed |-> FALSE]

(* --------------------------- product upsert --------------------------- *)

ProductFields ==
  {"product_url", "name", "price_amount", "last_price_update", "scrape_count",
   "store_id", "category_id", "manufacturer_id", "search_text",
   "updated_at", "embedding", "embedding_model", "embedding_updated_at"}

\* the value of a Product column that holds None / NULL
NullOf(field) ==
  CASE field = "product_url" -> ""
    [] field \in {"name", "search_text"} -> NoText
    [] field = "price_amount" -> NoPrice
    [] field \in {"last_price_update", "updated_at", "embedding_updated_at"}
         -> NoTime
    [] field = "embedding" -> << >>
    [] field = "embedding_model" -> ""
    [] OTHER -> NoId

\* the column value of a new row for a key the constructor is not given
\* (scrape_count has default=1, the other columns are NULL)
ColumnDefault(field) == IF field = "scrape_count" THEN 1 ELSE NullOf(field)

\* 'scrape_count': adapter.get('scrape_count', 1); the item's constructor
\* and the enrichment stage set the field to 1
ItemScrapeCount == 1

\* a _prepare_product_data that keeps the keys whose value is None
prepare_product_data_KeepNone(rec, store, category, manufacturer, now) ==
  [product_url |-> rec.product_url,
   name |-> rec.name,
   price_amount |-> rec.price_amount,
   store_id |-> store,
   category_id |-> category,
   manufacturer_id |-> manufacturer,
   scrape_count |-> ItemScrapeCount,
   last_price_update |-> IF rec.price_amount # NoPrice THEN now ELSE NoTime]

\* DatabasePipeline._prepare_product_data: the dict of the record's values,
\* last_price_update = now if there is a price, None values removed
prepare_product_data(rec, store, category, manufacturer, now) ==
  LET product_data ==
        [product_url |-> rec.product_url,
         name |-> rec.name,
         price_amount |-> rec.price_amount,
         store_id |-> store,
         category_id |-> category,
         manufacturer_id |-> manufacturer,
         scrape_count |-> ItemScrapeCount,
         last_price_update |->
           IF rec.price_amount # NoPrice THEN now ELSE NoTime]
      kept == { k \in DOMAIN product_data : product_data[k] # NullOf(k) }
  IN [k \in kept |-> product_data[k]]

\* Product(**obj_in)
NewProductRow(product_data) ==
  [f \in ProductFields |->
     IF f \in DOMAIN product_data THEN product_data[f] ELSE ColumnDefault(f)]

\* BaseModel.update_from_dict (no key of product_data is 'id' or
\* 'created_at', and every key is a Product attribute)
update_from_dict(row, data) ==
  [f \in DOMAIN row |-> IF f \in DOMAIN data THEN data[f] ELSE row[f]]

\* Product.generate_search_text
generate_search_text(row, categories, manufacturers) ==
  LET parts ==
        (IF row.name # NoText THEN <<row.name>> ELSE << >>)
        \o (IF row.category_id # NoId
              THEN <<categories[row.category_id].name>> ELSE << >>)
        \o (IF row.manufacturer_id # NoId
              THEN <<manufacturers[row.manufacturer_id].name>> ELSE << >>)
  IN Strip(Join(parts))

\* Product.update_search_text
update_search_text(row, categories, manufacturers) ==
  [row EXCEPT !.search_text = generate_search_text(row, categories, manufacturers)]

\* TimestampMixin.updated_at: default=func.now() on INSERT,
\* onupdate=func.now() on every UPDATE of the row
Touch(row, now) == [row EXCEPT !.updated_at = now]

\* a comparison that never reports a change
PriceChanged_Never(old_price, new_price) == FALSE

\* old_price != new_price and new_price is not None
PriceChanged(old_price, new_price) ==
  old_price # new_price /\ new_price # NoPrice

\* an update that leaves the counter alone
NextScrapeCount_Same(existing) == existing.scrape_count

\* product_data['scrape_count'] = existing_product.scrape_count + 1
NextScrapeCount(existing) == existing.scrape_count + 1

\* the product_data that _update_existing_product hands to the repository
UpdateData(existing, product_data, now) ==
  LET new_price == IF "price_amount" \in DOMAIN product_data
                     THEN product_data.price_amount ELSE NoPrice
      dated == IF PriceChanged(existing.price_amount, new_price)
                 THEN ("last_price_update" :> now) @@ product_data
                 ELSE product_data
  IN ("scrape_count" :> NextScrapeCount(existing)) @@ dated

\* any(field in product_data for field in ['name', 'description', 'details'])
ContentInData(product_data) == "name" \in DOMAIN product_data

\* DatabasePipeline._update_existing_product.  The repository update
\* commits; the search text is a second commit.
update_existing_product(products, id, product_data, categories, manufacturers, now, fail) ==
  LET existing == products[id]
      new_price == IF "price_amount" \in DOMAIN product_data
                     THEN product_data.price_amount ELSE NoPrice
      updated ==
        Touch(update_from_dict(existing, UpdateData(existing, product_data, now)),
              now)
      texted == IF ContentInData(product_data)
                  THEN update_search_text(updated, categories, manufacturers)
                  ELSE updated
  IN IF fail.at = "search_text" /\ ContentInData(product_data)
       THEN [products |-> [products EXCEPT ![id] = updated], id |-> NoId,
             raised |-> TRUE, price_changed |-> FALSE]
     ELSE [products |-> [products EXCEPT ![id] = texted], id |-> id,
           raised |-> FALSE,
           price_changed |-> PriceChanged(existing.price_amount, new_price)]

\* the create branch of _process_product: the repository create commits
\* the row, the search text is a second commit
create_product(products, product_data, categories, manufacturers, now, fail) ==
  LET row == Touch(NewProductRow(product_data), now)
      texted == update_search_text(row, categories, manufacturers)
  IN IF ~ProductInsertOk(products, row)
       THEN [products |-> products, id |-> NoId, raised |-> TRUE,
             price_changed |-> FALSE]
     ELSE IF fail.at = "search_text"
       THEN [products |-> Append(products, row), id |-> NoId, raised |-> TRUE,
             price_changed |-> FALSE]
     ELSE [products |-> Append(products, texted), id |-> Len(products) + 1,
           raised |-> FALSE, price_changed |-> FALSE]

\* a _process_product without the lookup by URL: it always creates
process_product_AlwaysCreate(products, rec, store, category, manufacturer, categories, manufacturers, now, fail) ==
  LET product_data == prepare_product_data(rec, store, category, manufacturer, now)
  IN IF fail.at = "product"
       THEN [products |-> products, id |-> NoId, raised |-> TRUE,
             price_changed |-> FALSE]
     ELSE create_product(products, product_data, categories, manufacturers, now, fail)

\* DatabasePipeline._process_product: look the product up by URL, then
\* update it or create it; every exception is re-raised
process_product(products, rec, store, category, manufacturer, categories, manufacturers, now, fail) ==
  LET existing == get_by_url(products, rec.product_url)
      product_data == prepare_product_data(rec, store, category, manufacturer, now)
  IN IF fail.at = "product"
       THEN [products |-> products, id |-> NoId, raised |-> TRUE,
             price_changed |-> FALSE]
     ELSE IF existing # NoId
       THEN update_existing_product(products, existing, product_data, categories,
                                    manufacturers, now, fail)
     ELSE create_product(products, product_data, categories, manufacturers, now, fail)

(* ---------------------------- process_item ---------------------------- *)

\* an except branch that returns the item in every mode
ErrorOutcome_AlwaysPassed(test_mode_) == "passed"

\* raise DropItem(...) unless DEV_SCRAPER_SETTINGS['test_mode'] is set, in
\* which case the item is returned to the next pipeline stage
ErrorOutcome(test_mode_) == IF test_mode_ THEN "passed" ELSE "dropped"

\* DatabasePipeline.process_item on the tables db and the identity caches
\* cache at time now.  Every repository create / update commits at once, so
\* what a step wrote stays when a later step raises.
process_item(db, cache, rec, fail, now, test_mode_) ==
  LET s == get_or_create_store(db.stores, cache.store, rec, fail)
      c == get_or_create_category_hierarchy(db.categories, cache.category, rec, fail)
      m == get_or_create_manufacturer(db.manufacturers, cache.manufacturer, rec, fail)
      p == process_product(db.products, rec, s.id, c.id, m.id, c.categories,
                           m.manufacturers, now, fail)
      db1 == [db EXCEPT !.stores = s.stores]
      cache1 == [cache EXCEPT !.store = s.cache]
      db2 == [db1 EXCEPT !.categories = c.categories]
      cache2 == [cache1 EXCEPT !.category = c.cache]
      db3 == [db2 EXCEPT !.manufacturers = m.manufacturers]
      cache3 == [cache2 EXCEPT !.manufacturer = m.cache]
      db4 == [db3 EXCEPT !.products = p.products]
      error(d, k, cf, mf) ==
        [db |-> d, cache |-> k, outcome |-> ErrorOutcome(test_mode_),
         product |-> NoId, price_changed |-> FALSE, store |-> NoId,
         category |-> NoId, manufacturer |-> NoId,
         category_failed |-> cf, manufacturer_failed |-> mf]
  IN IF s.raised THEN error(db, cache, FALSE, FALSE)
     ELSE IF c.raised THEN error(db2, cache2, TRUE, FALSE)
     ELSE IF m.raised THEN error(db3, cache3, c.failed, TRUE)
     ELSE IF p.raised THEN error(db4, cache3, c.failed, m.failed)
     ELSE [db |-> db4, cache |-> cache3, outcome |-> "saved",
           product |-> p.id, price_changed |-> p.price_changed,
           store |-> s.id, category |-> c.id, manufacturer |-> m.id,
           category_failed |-> c.failed, manufacturer_failed |-> m.failed]

(* ------------------------------ the state ----------------------------- *)

VARIABLES
  stores,              \* table stores
  categories,          \* table categories
  manufacturers,       \* table manufacturers
  products,            \* table products
  store_cache,         \* DatabasePipeline.store_cache
  category_cache,      \* DatabasePipeline.category_cache
  manufacturer_cache,  \* DatabasePipeline.manufacturer_cache
  stats,               \* DatabasePipeline.stats
  test_mode,           \* DEV_SCRAPER_SETTINGS['test_mode']
  clock,               \* datetime.utcnow(), one tick per item
  last,                \* the last call of process_item and what it found
  workers,             \* SpecConc: each worker's pipeline object and its
                       \* place in process_item
  item_pipelines,      \* ITEM_PIPELINES of the settings module in use
  crawler_stats,       \* spider.crawler.stats (the validation counters)
  validation_stats,    \* ValidationPipeline.stats
  seen_urls,           \* DuplicateDetectionPipeline.seen_urls
  duplicate_count,     \* DuplicateDetectionPipeline.duplicate_count
  reached,             \* the product URLs handed to DatabasePipeline in this run
  last_run,            \* the last item the spider yielded and where it ended
  job,                 \* the last run of generate_missing_embeddings
  search_result,       \* the last search call and what it returned
  utility              \* the last call of a parser utility, of the
                       \* enrichment stage or of the session scope

vars ==
  <<stores, categories, manufacturers, products, store_cache, category_cache,
    manufacturer_cache, stats, test_mode, clock, last, workers,
    item_pipelines, crawler_stats, validation_stats, seen_urls,
    duplicate_count, reached, last_run, job, search_result, utility>>

\* the state of the stages before DatabasePipeline
runVars ==
  <<item_pipelines, crawler_stats, validation_stats, seen_urls,
    duplicate_count, reached, last_run, utility>>

\* what the last embedding job and the last search call left
aiVars == <<job, search_result>>

Db ==
  [stores |-> stores, categories |-> categories,
   manufacturers |-> manufacturers, products |-> products]

Cache ==
  [store |-> store_cache, category |-> category_cache,
   manufacturer |-> manufacturer_cache]

\* a Product row of NULLs: the "existing product" of a first sighting
NoProduct == [f \in ProductFields |-> NullOf(f)]

Workers == {1, 2}

NoRecord ==
  [product_url |-> "", name |-> NoText, price_amount |-> NoPrice,
   store |-> [name |-> NoText, slug |-> NoText], category_path |-> << >>,
   manufacturer_name |-> NoText]

\* a worker's DatabasePipeline after __init__, before its first item
IdleWorker ==
  [pc |-> "idle", rec |-> NoRecord, store_cache |-> << >>,
   category_cache |-> << >>, manufacturer_cache |-> << >>, store |-> NoId,
   level |-> 0, parent |-> NoId, category_failed |-> FALSE,
   manufacturer |-> NoId, manufacturer_failed |-> FALSE, existing |-> NoId,
   loaded |-> NoProduct, now |-> NoTime, outcome |-> "none", product |-> NoId]

\* the counters ValidationPipeline keeps in spider.crawler.stats for the
\* rules the modelled items can fail
StatKeys ==
  {"validation_pipeline/missing_name", "validation_pipeline/missing_product_url",
   "validation_pipeline/missing_store_name",
   "validation_pipeline/invalid_store_name",
   "validation_pipeline/items_dropped", "validation_pipeline/items_validated"}

\* ITEM_PIPELINES of settings.py, in the order of the priorities
SettingsPipelines ==
  <<"ValidationPipeline", "DuplicateDetectionPipeline", "EnrichmentPipeline",
    "DatabasePipeline">>

\* ITEM_PIPELINES of config/production.py (config/development.py lists
\* the same stages)
ProductionPipelines ==
  <<"ValidationPipeline", "EnrichmentPipeline", "DatabasePipeline">>

\* the settings modules a scraper process can be started with
PipelineSettings == {SettingsPipelines, ProductionPipelines}

\* no embedding job has run
NoJob ==
  [run |-> 0, available |-> FALSE, selected |-> << >>, embeddings |-> << >>,
   processed |-> {}, errors |-> {}]

\* no search has been answered
NoSearch ==
  [op |-> "none", query |-> NoText, store_id |-> NoId, limit |-> 0,
   product_id |-> NoId, text_results |-> << >>, vector_results |-> << >>,
   products |-> << >>, scores |-> << >>, search_type |-> "none",
   cause |-> "none"]

\* the stages' objects after __init__
NewRunState ==
  [crawler_stats |-> [k \in StatKeys |-> 0],
   validation_stats |-> [items_validated |-> 0, items_dropped |-> 0,
                         validation_errors |-> 0],
   seen_urls |-> {}, duplicate_count |-> 0]

\* no utility has been called
NoCall == [op |-> "none"]

\* the state before the first item, under any of the settings modules
InitRun ==
  /\ workers = [w \in Workers |-> IdleWorker]
  /\ item_pipelines \in PipelineSettings
  /\ crawler_stats = NewRunState.crawler_stats
  /\ validation_stats = NewRunState.validation_stats
  /\ seen_urls = NewRunState.seen_urls
  /\ duplicate_count = NewRunState.duplicate_count
  /\ reached = {}
  /\ last_run = [raw |-> NoRecord, item |-> NoRecord, ended |-> "none",
                 rule |-> "none"]
  /\ job = NoJob
  /\ search_result = NoSearch
  /\ utility = NoCall
  /\ stores = << >>
  /\ categories = << >>
  /\ manufacturers = << >>
  /\ products = << >>
  /\ store_cache = << >>
  /\ category_cache = << >>
  /\ manufacturer_cache = << >>
  /\ stats = [items_saved |-> 0, items_updated |-> 0, database_errors |-> 0]
  /\ test_mode \in BOOLEAN
  /\ clock = 0
  /\ last = [outcome |-> "none", rec |-> NoRecord, fail |-> NoFault,
             existing |-> NoId,
             old |-> NoProduct, product |-> NoId, price_changed |-> FALSE,
             store |-> NoId, category |-> NoId, manufacturer |-> NoId,
             category_failed |-> FALSE, manufacturer_failed |-> FALSE]

\* the state before the first item of a process started with settings.py
Init == InitRun /\ item_pipelines = SettingsPipelines

\* Scrapy hands the next item to DatabasePipeline.process_item; fail is
\* the database fault met while it runs
ProcessItem(rec, fail) ==
  /\ clock < MaxItems
  /\ LET now == clock + 1
         existing == get_by_url(products, rec.product_url)
     IN \E r \in {process_item(Db, Cache, rec, fail, now, test_mode)} :
        /\ stores' = r.db.stores
        /\ categories' = r.db.categories
        /\ manufacturers' = r.db.manufacturers
        /\ products' = r.db.products
        /\ store_cache' = r.cache.store
        /\ category_cache' = r.cache.category
        /\ manufacturer_cache' = r.cache.manufacturer
        /\ stats' =
             [items_saved |->
                stats.items_saved + (IF r.outcome = "saved" THEN 1 ELSE 0),
              items_updated |->
                stats.items_updated
                  + (IF r.outcome = "saved" /\ existing # NoId THEN 1 ELSE 0),
              database_errors |->
                stats.database_errors + (IF r.outcome # "saved" THEN 1 ELSE 0)]
        /\ clock' = now
        /\ UNCHANGED workers
        /\ last' = [outcome |-> r.outcome, rec |-> rec, fail |-> fail,
                    existing |-> existing,
                    old |-> IF existing # NoId THEN products[existing]
                            ELSE NoProduct,
                    product |-> r.product, price_changed |-> r.price_changed,
                    store |-> r.store, category |-> r.category,
                    manufacturer |-> r.manufacturer,
                    category_failed |-> r.category_failed,
                    manufacturer_failed |-> r.manufacturer_failed]
  /\ UNCHANGED test_mode

\* DatabasePipeline.__init__: a new scraper run starts on the database the
\* earlier runs left, with empty identity caches and zeroed statistics
NewPipeline ==
  /\ store_cache' = << >>
  /\ category_cache' = << >>
  /\ manufacturer_cache' = << >>
  /\ stats' = [items_saved |-> 0, items_updated |-> 0, database_errors |-> 0]
  /\ UNCHANGED <<stores, categories, manufacturers, products, test_mode,
                 clock, last, workers>>
  /\ UNCHANGED <<runVars, aiVars>>

\* an item is reconciled and the database answers every statement
Reconcile ==
  /\ \E rec \in Records : ProcessItem(rec, NoFault)
  /\ UNCHANGED <<runVars, aiVars>>

\* an item is reconciled and one database statement fails
ReconcileWithFault ==
  /\ \E rec \in FaultRecords, fail \in Faults : ProcessItem(rec, fail)
  /\ UNCHANGED <<runVars, aiVars>>

\* Scrapy calls process_item for one item after the other; an item the
\* pipeline drops (DropItem) or returns does not stop the items after it
Next == Reconcile \/ ReconcileWithFault \/ NewPipeline

Spec == Init /\ [][Next]_vars

(* ------------------- the stages before the database ------------------- *)

Milch == <<"M", "i", "l", "c", "h">>

\* the letters of the modelled texts (str.isalpha)
Letters ==
  {"B", "D", "E", "M", "O", "b", "c", "h", "i", "l", "o", "r", "s", "t"}

\* the items a spider yields: name, product URL and store name may be
\* missing (None) or blank; the spider always sets store_slug
\* (base_spider.py), and every other field passes the format checks
RawItems ==
  [ product_url : {"", " ", "u1", "u2"},
    name : {NoText, <<" ">>, Milch},
    price_amount : {129},
    store : { [name |-> n, slug |-> <<"e", "2", "4">>] :
                n \in {NoText, <<" ", " ">>, <<"E", "2", "4">>} },
    category_path : { << >> },
    manufacturer_name : {DrO} ]

\* not value or (isinstance(value, str) and not value.strip())
IsBlank(text) == text = NoText \/ Strip(text) = << >>

\* the same test on a URL (URLs are atoms; "" is None or empty, " " is blank)
IsBlankUrl(url) == url \in {"", " "}

\* the length of the first word of a text that starts with a non-space
WordLen(t) ==
  CHOOSE n \in 1..Len(t) :
    /\ \A i \in 1..n : t[i] # " "
    /\ n = Len(t) \/ t[n + 1] = " "

RECURSIVE SplitWords(_)
\* str.split()
SplitWords(s) ==
  LET t == LStrip(s)
  IN IF t = << >> THEN << >>
     ELSE <<SubSeq(t, 1, WordLen(t))>>
            \o SplitWords(SubSeq(t, WordLen(t) + 1, Len(t)))

\* ValidationPipeline._clean_text (the modelled texts hold no control
\* characters)
clean_text(text) ==
  IF text = NoText THEN text ELSE Strip(Join(SplitWords(text)))

\* a required-field check that forgets the name
validate_required_fields_NoName(item) ==
  IF IsBlankUrl(item.product_url) THEN "missing_product_url"
  ELSE IF IsBlank(item.store.name) THEN "missing_store_name"
  ELSE "none"

\* ValidationPipeline._validate_required_fields: the first required field
\* that is missing or blank, in the order name, product_url, store_name
\* (scraped_at is set by the item's constructor)
validate_required_fields(item) ==
  IF IsBlank(item.name) THEN "missing_name"
  ELSE IF IsBlankUrl(item.product_url) THEN "missing_product_url"
  ELSE IF IsBlank(item.store.name) THEN "missing_store_name"
  ELSE "none"

\* ValidationPipeline._validate_business_rules: the store name rule
validate_business_rules(item) ==
  IF item.store.name # NoText /\ Len(Strip(item.store.name)) < 2
    THEN "invalid_store_name" ELSE "none"

\* ValidationPipeline._clean_and_normalize
clean_and_normalize(item) ==
  [item EXCEPT
     !.name = clean_text(item.name),
     !.store = [item.store EXCEPT !.name = clean_text(item.store.name)],
     !.manufacturer_name = clean_text(item.manufacturer_name),
     !.category_path =
       LET kept == SelectSeq(item.category_path, LAMBDA c : ~IsBlank(c))
       IN [i \in DOMAIN kept |-> clean_text(kept[i])]]

\* ValidationPipeline.process_item: rule is the rule whose DropItem ended
\* the item, "none" when the item is returned
validation_process_item(item) ==
  LET required == validate_required_fields(item)
      business == validate_business_rules(item)
      rule == IF required # "none" THEN required ELSE business
  IN [dropped |-> rule # "none", rule |-> rule,
      item |-> IF rule # "none" THEN item ELSE clean_and_normalize(item)]

\* DuplicateDetectionPipeline.process_item
duplicate_process_item(seen, count, item) ==
  IF IsBlankUrl(item.product_url)
    THEN [dropped |-> FALSE, seen_urls |-> seen, duplicate_count |-> count]
  ELSE IF item.product_url \in seen
    THEN [dropped |-> TRUE, seen_urls |-> seen, duplicate_count |-> count + 1]
  ELSE [dropped |-> FALSE, seen_urls |-> seen \cup {item.product_url},
        duplicate_count |-> count]

\* DataEnricher.extract_manufacturer_from_name for a name without a known
\* brand: the first word if it has more than two characters, all letters
extract_manufacturer_from_name(name) ==
  LET words == SplitWords(name)
  IN IF words # << >> /\ Len(words[1]) > 2
        /\ \A i \in DOMAIN words[1] : words[1][i] \in Letters
       THEN words[1] ELSE NoText

\* EnrichmentPipeline.process_item, the fields the database stage reads:
\* a missing manufacturer is detected from the name (store_slug is set)
enrichment_process_item(item) ==
  IF item.manufacturer_name = NoText /\ item.name # NoText
    THEN [item EXCEPT !.manufacturer_name = extract_manufacturer_from_name(item.name)]
    ELSE item

\* the counters of spider.crawler.stats after inc_value on the keys ks
IncValue(cstats, ks) ==
  [k \in DOMAIN cstats |-> IF k \in ks THEN cstats[k] + 1 ELSE cstats[k]]

\* the spider yields an item and Scrapy passes it through the stages of
\* ITEM_PIPELINES in order; a stage's DropItem ends the item there
ScrapeItem(raw) ==
  LET v == validation_process_item(raw)
      deduplicating ==
        \E i \in DOMAIN item_pipelines :
          item_pipelines[i] = "DuplicateDetectionPipeline"
      d == IF deduplicating
             THEN duplicate_process_item(seen_urls, duplicate_count, v.item)
             ELSE [dropped |-> FALSE, seen_urls |-> seen_urls,
                   duplicate_count |-> duplicate_count]
      item == enrichment_process_item(v.item)
  IN /\ clock < MaxItems
     /\ UNCHANGED <<item_pipelines, aiVars, utility>>
     /\ IF v.dropped
          THEN /\ crawler_stats' =
                    IncValue(crawler_stats,
                             {"validation_pipeline/" \o v.rule,
                              "validation_pipeline/items_dropped"})
               /\ validation_stats' =
                    [validation_stats EXCEPT
                       !.items_dropped = @ + 1, !.validation_errors = @ + 1]
               /\ last_run' = [raw |-> raw, item |-> raw,
                               ended |-> "ValidationPipeline", rule |-> v.rule]
               /\ clock' = clock + 1
               /\ UNCHANGED <<seen_urls, duplicate_count, reached>>
               /\ UNCHANGED <<stores, categories, manufacturers, products,
                              store_cache, category_cache, manufacturer_cache,
                              stats, test_mode, last, workers>>
        ELSE /\ crawler_stats' =
                  IncValue(crawler_stats, {"validation_pipeline/items_validated"})
             /\ validation_stats' =
                  [validation_stats EXCEPT !.items_validated = @ + 1]
             /\ seen_urls' = d.seen_urls
             /\ duplicate_count' = d.duplicate_count
             /\ IF d.dropped
                  THEN /\ last_run' = [raw |-> raw, item |-> v.item,
                                       ended |-> "DuplicateDetectionPipeline",
                                       rule |-> "none"]
                       /\ clock' = clock + 1
                       /\ UNCHANGED reached
                       /\ UNCHANGED <<stores, categories, manufacturers,
                                      products, store_cache, category_cache,
                                      manufacturer_cache, stats, test_mode,
                                      last, workers>>
                ELSE /\ last_run' = [raw |-> raw, item |-> item,
                                     ended |-> "DatabasePipeline",
                                     rule |-> "none"]
                     /\ reached' = reached \cup {item.product_url}
                     /\ ProcessItem(item, NoFault)

\* a new scraper process starts on the database the earlier ones left:
\* every stage object is constructed anew
NewRun ==
  /\ store_cache' = << >>
  /\ category_cache' = << >>
  /\ manufacturer_cache' = << >>
  /\ stats' = [items_saved |-> 0, items_updated |-> 0, database_errors |-> 0]
  /\ crawler_stats' = NewRunState.crawler_stats
  /\ validation_stats' = NewRunState.validation_stats
  /\ seen_urls' = NewRunState.seen_urls
  /\ duplicate_count' = NewRunState.duplicate_count
  /\ reached' = {}
  /\ UNCHANGED <<stores, categories, manufacturers, products, test_mode,
                 clock, last, workers, item_pipelines, last_run, aiVars,
                 utility>>

NextRun ==
  \/ \E raw \in RawItems : ScrapeItem(raw)
  \/ NewRun

SpecRun == InitRun /\ [][NextRun]_vars

(* ------------- rows deleted behind the identity caches --------------- *)

\* the records reconciled while rows are deleted from outside
CacheRecords ==
  { r \in Records : /\ r.price_amount = 129
                    /\ r.category_path \in { << >>, <<Obst, Bio>> }
                    /\ r.manufacturer_name \in {NoText, DrO} }

\* the product step fails: the store, categories and manufacturer the
\* item created stay, referenced by no product
CacheFaults == { [at |-> "product", level |-> 0] }

\* no product and no category refers to the row (the foreign keys let it
\* be deleted)
Unreferenced(table, i) ==
  /\ \A p \in DOMAIN products :
       /\ table = "stores" => products[p].store_id # i
       /\ table = "categories" => products[p].category_id # i
       /\ table = "manufacturers" => products[p].manufacturer_id # i
  /\ table = "categories" =>
       \A c \in DOMAIN categories : categories[c].parent_id # i

\* somebody else (an administrator, another service) deletes a store, a
\* category or a manufacturer that nothing refers to, while the pipeline
\* still has its id cached
ExternalDelete ==
  /\ \/ \E i \in DOMAIN stores :
          /\ Live(stores, i) /\ Unreferenced("stores", i)
          /\ stores' = [stores EXCEPT ![i] = DeletedRow]
          /\ UNCHANGED <<categories, manufacturers>>
     \/ \E i \in DOMAIN categories :
          /\ Live(categories, i) /\ Unreferenced("categories", i)
          /\ categories' = [categories EXCEPT ![i] = DeletedCategory]
          /\ UNCHANGED <<stores, manufacturers>>
     \/ \E i \in DOMAIN manufacturers :
          /\ Live(manufacturers, i) /\ Unreferenced("manufacturers", i)
          /\ manufacturers' = [manufacturers EXCEPT ![i] = DeletedRow]
          /\ UNCHANGED <<stores, categories>>
  /\ UNCHANGED <<products, store_cache, category_cache, manufacturer_cache,
                 stats, test_mode, clock, last, workers>>
  /\ UNCHANGED <<runVars, aiVars>>

\* an item is reconciled by the pipeline whose caches may be stale
ReconcileCached ==
  /\ \E rec \in CacheRecords : ProcessItem(rec, NoFault)
  /\ UNCHANGED <<runVars, aiVars>>

\* an item whose product step fails
ReconcileCachedWithFault ==
  /\ \E rec \in CacheRecords, fail \in CacheFaults : ProcessItem(rec, fail)
  /\ UNCHANGED <<runVars, aiVars>>

NextCache == ReconcileCached \/ ReconcileCachedWithFault \/ ExternalDelete

\* one scraper process on a database other clients delete rows from
SpecCache == Init /\ [][NextCache]_vars

(* ------------------- the embedding maintenance job ------------------- *)

\* Embeddings are vectors of the same length (13), so that the cosine of
\* two of them is their dot product over NormSq.
Vectors == { <<13, 0>>, <<12, 5>> }

\* Product.embedding IS NULL
NoEmbedding == << >>

\* ai_settings.embedding_model
EmbeddingModel == "text-embedding-3-small"

\* batch_size of generate_missing_embeddings
BatchSizes == {1, 2}

\* Product.needs_embedding_update / the filter of
\* get_products_needing_embeddings
needs_embedding_update(row) ==
  \/ row.embedding = NoEmbedding
  \/ row.embedding_updated_at = NoTime
  \/ row.updated_at > row.embedding_updated_at

RECURSIVE Arrangements(_, _)
\* the sequences of n distinct members of S
Arrangements(S, n) ==
  IF n = 0 \/ S = {} THEN { << >> }
  ELSE UNION { { <<x>> \o rest : rest \in Arrangements(S \ {x}, n - 1) } :
               x \in S }

\* ProductRepository.get_products_needing_embeddings: the query has a
\* LIMIT and no ORDER BY, so the database may return any `limit` of the
\* matching rows in any order
get_products_needing_embeddings(products_, limit) ==
  LET matching == { i \in DOMAIN products_ : needs_embedding_update(products_[i]) }
      n == IF Cardinality(matching) < limit THEN Cardinality(matching)
           ELSE limit
  IN Arrangements(matching, n)

\* Product.get_embedding_text: the labelled parts the text is joined
\* from (the text is empty exactly if there is none)
get_embedding_text(row) ==
  (IF row.name # NoText THEN <<"Producto">> ELSE << >>)
  \o (IF row.category_id # NoId THEN <<"Categoria">> ELSE << >>)
  \o (IF row.manufacturer_id # NoId THEN <<"Marca">> ELSE << >>)
  \o (IF row.price_amount # NoPrice /\ row.price_amount # 0
        THEN <<"Precio">> ELSE << >>)

RECURSIVE SeqsUpTo(_, _)
\* the sequences over S of length 0..n
SeqsUpTo(S, n) ==
  IF n = 0 THEN { << >> }
  ELSE SeqsUpTo(S, n - 1)
       \cup { Append(q, x) : q \in { r \in SeqsUpTo(S, n - 1) : Len(r) = n - 1 },
                              x \in S }

\* what client.embeddings.create can do with n texts: raise, or answer
\* with the embeddings of the first texts (all of them, or fewer)
ApiAnswers(n) ==
  { [raises |-> TRUE, data |-> << >>] }
  \cup { [raises |-> FALSE, data |-> d] : d \in SeqsUpTo(Vectors, n) }

\* EmbeddingGenerator.generate_batch_embeddings: index of the text ->
\* embedding (indices are 1-based here); texts without content are left
\* out of the request
generate_batch_embeddings(available, texts, api) ==
  LET valid == SelectSeq([i \in DOMAIN texts |-> i], LAMBDA i : texts[i] # << >>)
  IN IF ~available \/ texts = << >> \/ valid = << >> \/ api.raises
          \/ Len(api.data) > Len(valid)
       THEN << >>
     ELSE LET answered == { valid[i] : i \in DOMAIN api.data }
              pos(k) == CHOOSE i \in DOMAIN api.data : valid[i] = k
          IN [k \in answered |-> api.data[pos(k)]]

\* ProductRepository.update_embedding; raised = TRUE: the commit failed,
\* the session was rolled back and the exception raised again
update_embedding(products_, id, embedding, model, now, fails, cats, mans) ==
  LET row == products_[id]
      set == [row EXCEPT !.embedding = embedding, !.embedding_model = model,
                         !.embedding_updated_at = now]
      texted == IF set.search_text = NoText
                  THEN update_search_text(set, cats, mans) ELSE set
  IN IF fails THEN [products |-> products_, raised |-> TRUE]
     ELSE [products |-> [products_ EXCEPT ![id] = Touch(texted, now)],
           raised |-> FALSE]

RECURSIVE EmbeddingLoop_TouchMissing(_, _, _, _, _, _, _, _)
\* a loop that stamps the products it got no embedding for
EmbeddingLoop_TouchMissing(acc, selected, embeddings, i, now, failing, cats, mans) ==
  IF i > Len(selected) THEN acc
  ELSE IF i \notin DOMAIN embeddings
    THEN EmbeddingLoop_TouchMissing(
           [acc EXCEPT !.products[selected[i]].embedding_updated_at = now],
           selected, embeddings, i + 1, now, failing, cats, mans)
  ELSE
    LET u == update_embedding(acc.products, selected[i], embeddings[i],
                              EmbeddingModel, now, selected[i] = failing,
                              cats, mans)
    IN EmbeddingLoop_TouchMissing(
         [products |-> u.products,
          processed |-> IF u.raised THEN acc.processed
                        ELSE acc.processed \cup {selected[i]},
          errors |-> IF u.raised THEN acc.errors \cup {selected[i]}
                     ELSE acc.errors],
         selected, embeddings, i + 1, now, failing, cats, mans)

RECURSIVE EmbeddingLoop(_, _, _, _, _, _, _, _)
\* the loop of generate_missing_embeddings over the selected products
\* from position i on; failing is the product whose commit fails, if any
EmbeddingLoop(acc, selected, embeddings, i, now, failing, cats, mans) ==
  IF i > Len(selected) THEN acc
  ELSE IF i \notin DOMAIN embeddings
    THEN EmbeddingLoop(acc, selected, embeddings, i + 1, now, failing, cats, mans)
  ELSE
    LET u == update_embedding(acc.products, selected[i], embeddings[i],
                              EmbeddingModel, now, selected[i] = failing,
                              cats, mans)
    IN EmbeddingLoop(
         [products |-> u.products,
          processed |-> IF u.raised THEN acc.processed
                        ELSE acc.processed \cup {selected[i]},
          errors |-> IF u.raised THEN acc.errors \cup {selected[i]}
                     ELSE acc.errors],
         selected, embeddings, i + 1, now, failing, cats, mans)

\* ProductService.generate_missing_embeddings.  The job's statements read
\* the database time of the clock tick the last item ended in.
GenerateMissingEmbeddings ==
  \E available \in BOOLEAN, batch_size \in BatchSizes :
    /\ IF ~available
         THEN /\ job' = [NoJob EXCEPT !.run = 1 - job.run]
              /\ UNCHANGED products
       ELSE
         \E selected \in get_products_needing_embeddings(products, batch_size) :
         \E api \in ApiAnswers(Len(selected)) :
         \E failing \in {NoId} \cup { selected[i] : i \in DOMAIN selected } :
           LET texts == [i \in DOMAIN selected |->
                           get_embedding_text(products[selected[i]])]
               embeddings == generate_batch_embeddings(available, texts, api)
               r == EmbeddingLoop([products |-> products, processed |-> {},
                                   errors |-> {}],
                                  selected, embeddings, 1, clock, failing,
                                  categories, manufacturers)
           IN /\ products' = r.products
              /\ job' = [run |-> 1 - job.run, available |-> TRUE,
                         selected |-> selected, embeddings |-> embeddings,
                         processed |-> r.processed, errors |-> r.errors]
    /\ UNCHANGED <<stores, categories, manufacturers, store_cache,
                   category_cache, manufacturer_cache, stats, test_mode,
                   clock, last, workers, search_result>>
    /\ UNCHANGED runVars

\* the records scraped between the runs of the job
EmbedRecords ==
  { r \in Records : /\ r.category_path = << >>
                    /\ r.price_amount = 129
                    /\ r.manufacturer_name \in {NoText, DrO} }

\* an item is reconciled between two runs of the job
ReconcileForEmbedding ==
  /\ \E rec \in EmbedRecords : ProcessItem(rec, NoFault)
  /\ UNCHANGED <<runVars, aiVars>>

NextEmbed == ReconcileForEmbedding \/ GenerateMissingEmbeddings

\* the scraper and the embedding maintenance job, one after the other
SpecEmbed == Init /\ [][NextEmbed]_vars

(* --------------------------- product search -------------------------- *)

\* number of products in the searched catalogue
MaxProducts == 2

\* the embeddings generate_embedding can return for a query
QueryVectors == Vectors \cup { <<5, 12>> }

Dot(a, b) == a[1] * b[1] + a[2] * b[2]

\* the squared length of every modelled embedding
NormSq == Dot(<<13, 0>>, <<13, 0>>)

\* text_weight, vector_weight of hybrid_search and similarity_threshold of
\* search_by_embedding, in tenths
TextWeight == 6
VectorWeight == 4
SimilarityThreshold == 8

\* scores are held as whole multiples of 1 / ScoreScale, which every
\* (n - i) / n * text_weight and similarity * vector_weight of the
\* modelled catalogues is
ScoreScale == 10 * NormSq * 12

Brotwort == <<"B", "r", "o", "t">>

\* the free-text queries
Queries == { Milch, Brotwort }

\* limit of a search call
Limits == {1, 2}

\* a second store, for the store filter
Stores2 ==
  << [name |-> <<"E", "2", "4">>, slug |-> <<"e", "2", "4">>],
     [name |-> <<"R", "3">>, slug |-> <<"r", "3">>] >>

CatalogueUrls == <<"u1", "u2", "u3">>

\* the Product rows the scraper and the embedding job can have left: a
\* name (search_text is the name: no category, no manufacturer), a store,
\* and an embedding or none
CatalogueRow(url, name, store, embedding) ==
  [NoProduct EXCEPT
     !.product_url = url, !.name = name, !.search_text = name,
     !.price_amount = 129, !.last_price_update = 1, !.scrape_count = 1,
     !.store_id = store, !.updated_at = 1, !.embedding = embedding,
     !.embedding_model = IF embedding = NoEmbedding THEN "" ELSE EmbeddingModel,
     !.embedding_updated_at = IF embedding = NoEmbedding THEN NoTime ELSE 1]

RECURSIVE Catalogues(_)
\* the products tables of n rows
Catalogues(n) ==
  IF n = 0 THEN { << >> }
  ELSE { Append(c, CatalogueRow(CatalogueUrls[n], name, store, embedding)) :
           c \in Catalogues(n - 1), name \in Queries,
           store \in DOMAIN Stores2,
           embedding \in Vectors \cup {NoEmbedding} }

\* how often word w occurs in the sequence of words ws
Occurrences(ws, w) == Cardinality({ i \in DOMAIN ws : ws[i] = w })

\* to_tsvector('english', search_text) @@ plainto_tsquery('english', query):
\* every word of the query is a word of the text, case ignored (the
\* modelled words are neither stop words nor changed by stemming)
TextMatches(search_text, query) ==
  LET ws == SplitWords(Lower(search_text))
      qs == SplitWords(Lower(query))
  IN /\ search_text # NoText
     /\ qs # << >>
     /\ \A i \in DOMAIN qs : Occurrences(ws, qs[i]) > 0

\* ts_rank: grows with the number of occurrences of the query's words
ts_rank(search_text, query) ==
  LET ws == SplitWords(Lower(search_text))
      qs == SplitWords(Lower(query))
  IN Occurrences(ws, qs[1])
       + (IF Len(qs) > 1 THEN Occurrences(ws, qs[2]) ELSE 0)

\* ORDER BY key DESC over the rows S: any order is possible among rows
\* with equal keys
OrderedDesc(S, key) ==
  { q \in Arrangements(S, Cardinality(S)) :
      \A i \in 1..(Len(q) - 1) : key[q[i]] >= key[q[i + 1]] }

\* LIMIT n
Limit(q, n) == SubSeq(q, 1, IF Len(q) < n THEN Len(q) ELSE n)

\* ProductRepository.search_by_text: the lists of product ids the query
\* can return
search_by_text(products_, query, store_id, category_id, limit) ==
  LET hits == { i \in DOMAIN products_ :
                  /\ TextMatches(products_[i].search_text, query)
                  /\ store_id = NoId \/ products_[i].store_id = store_id
                  /\ category_id = NoId
                       \/ products_[i].category_id = category_id }
      rank == [i \in hits |-> ts_rank(products_[i].search_text, query)]
  IN { Limit(q, limit) : q \in OrderedDesc(hits, rank) }

\* ProductRepository.search_by_embedding: the lists of (product id,
\* similarity) the query can return; similarity is held as the dot
\* product, that is as a multiple of 1 / NormSq.  The filter is
\* cosine_distance < 1 - similarity_threshold.
search_by_embedding(products_, embedding, store_id, category_id, threshold, limit) ==
  LET hits == { i \in DOMAIN products_ :
                  /\ products_[i].embedding # NoEmbedding
                  /\ 10 * (NormSq - Dot(products_[i].embedding, embedding))
                       < (10 - threshold) * NormSq
                  /\ store_id = NoId \/ products_[i].store_id = store_id
                  /\ category_id = NoId
                       \/ products_[i].category_id = category_id }
      similarity == [i \in hits |-> Dot(products_[i].embedding, embedding)]
  IN { [k \in DOMAIN Limit(q, limit) |->
          [id |-> q[k], similarity |-> similarity[q[k]]]] :
       q \in OrderedDesc(hits, similarity) }

\* score = (len(text_results) - i) / len(text_results) * text_weight, for
\* the result at 1-based position i
TextScore(i, n) == (ScoreScale * TextWeight * (n - (i - 1))) \div (10 * n)

\* vector_score = similarity * vector_weight
VectorScore(similarity) ==
  (ScoreScale \div (10 * NormSq)) * VectorWeight * similarity

\* the entries of `results` after the loop over the text results
TextEntries(text_results) ==
  [i \in DOMAIN text_results |->
     [id |-> text_results[i],
      text_score |-> TextScore(i, Len(text_results)),
      vector_score |-> 0,
      total_score |-> TextScore(i, Len(text_results))]]

RECURSIVE MergeVector_Overwrite(_, _, _)
\* a merge that replaces the total of a product of both stages
MergeVector_Overwrite(entries, vector_results, i) ==
  IF i > Len(vector_results) THEN entries
  ELSE
    LET v == vector_results[i]
        vector_score == VectorScore(v.similarity)
        at == { k \in DOMAIN entries : entries[k].id = v.id }
    IN IF at # {}
         THEN MergeVector_Overwrite(
                [entries EXCEPT ![CHOOSE k \in at : TRUE] =
                   [@ EXCEPT !.vector_score = vector_score,
                             !.total_score = vector_score]],
                vector_results, i + 1)
       ELSE MergeVector_Overwrite(
              Append(entries, [id |-> v.id, text_score |-> 0,
                               vector_score |-> vector_score,
                               total_score |-> vector_score]),
              vector_results, i + 1)

RECURSIVE MergeVector(_, _, _)
\* the loop of hybrid_search over the vector results from position i on;
\* entries is results.values() in insertion order
MergeVector(entries, vector_results, i) ==
  IF i > Len(vector_results) THEN entries
  ELSE
    LET v == vector_results[i]
        vector_score == VectorScore(v.similarity)
        at == { k \in DOMAIN entries : entries[k].id = v.id }
    IN IF at # {}
         THEN MergeVector(
                [entries EXCEPT ![CHOOSE k \in at : TRUE] =
                   [@ EXCEPT !.vector_score = vector_score,
                             !.total_score = @ + vector_score]],
                vector_results, i + 1)
       ELSE MergeVector(
              Append(entries, [id |-> v.id, text_score |-> 0,
                               vector_score |-> vector_score,
                               total_score |-> vector_score]),
              vector_results, i + 1)

\* a sort without reverse=True: the lowest total first
SortByTotal_Ascending(entries) ==
  LET n == Len(entries)
      before(k) == { j \in 1..n :
                      \/ entries[j].total_score < entries[k].total_score
                      \/ /\ entries[j].total_score = entries[k].total_score
                         /\ j < k }
  IN [r \in 1..n |->
        entries[CHOOSE k \in 1..n : Cardinality(before(k)) = r - 1]]

\* sorted(results.values(), key=total_score, reverse=True): Python's sort
\* is stable, entries of equal total keep their order
SortByTotal(entries) ==
  LET n == Len(entries)
      before(k) == { j \in 1..n :
                      \/ entries[j].total_score > entries[k].total_score
                      \/ /\ entries[j].total_score = entries[k].total_score
                         /\ j < k }
  IN [r \in 1..n |->
        entries[CHOOSE k \in 1..n : Cardinality(before(k)) = r - 1]]

\* ProductRepository.hybrid_search: what the call can return, with the
\* output of the two stages it was computed from
hybrid_search(products_, text_query, embedding, store_id, category_id, limit) ==
  { [text_results |-> t, vector_results |-> v,
     results |-> Limit(SortByTotal(MergeVector(TextEntries(t), v, 1)), limit)] :
    t \in search_by_text(products_, text_query, store_id, category_id,
                         limit * 2),
    v \in IF embedding = NoEmbedding THEN { << >> }
          ELSE search_by_embedding(products_, embedding, store_id,
                                   category_id, SimilarityThreshold,
                                   limit * 2) }

\* the ways search_products can come to its answer: AI ranking switched
\* off by the caller, embedding service unavailable, generate_embedding
\* returned None, or a query embedding
SearchCauses == {"off", "unavailable", "no_embedding", "embedded"}

\* a service that answers with nothing when no query embedding came back
search_products_EmptyFallback(products_, query, store_id, category_id, use_ai, limit, available, query_embedding) ==
  IF use_ai /\ available /\ query_embedding = NoEmbedding
    THEN { [text_results |-> t, vector_results |-> << >>, products |-> << >>,
            scores |-> << >>, search_type |-> "text_fallback"] :
           t \in search_by_text(products_, query, store_id, category_id, limit) }
  ELSE { [text_results |-> t, vector_results |-> << >>, products |-> t,
          scores |-> << >>, search_type |-> "text_only"] :
         t \in search_by_text(products_, query, store_id, category_id, limit) }

\* ProductService.search_products: the answers the call can give
search_products(products_, query, store_id, category_id, use_ai, limit, available, query_embedding) ==
  LET text_only(t, type) ==
        [text_results |-> t, vector_results |-> << >>, products |-> t,
         scores |-> << >>, search_type |-> type]
  IN IF ~use_ai \/ ~available
       THEN { text_only(t, "text_only") :
              t \in search_by_text(products_, query, store_id, category_id,
                                   limit) }
     ELSE IF query_embedding # NoEmbedding
       THEN { [text_results |-> h.text_results,
               vector_results |-> h.vector_results,
               products |-> [k \in DOMAIN h.results |-> h.results[k].id],
               scores |-> h.results, search_type |-> "hybrid"] :
              h \in hybrid_search(products_, query, query_embedding, store_id,
                                  category_id, limit) }
     ELSE { text_only(t, "text_fallback") :
            t \in search_by_text(products_, query, store_id, category_id,
                                 limit) }

\* ProductRepository.get_similar_products: the lists the call can return
get_similar_products(products_, product_id, limit) ==
  IF product_id \notin DOMAIN products_
     \/ products_[product_id].embedding = NoEmbedding
    THEN { << >> }
  ELSE { Tail(q) :
         q \in { r \in search_by_embedding(products_,
                                           products_[product_id].embedding,
                                           products_[product_id].store_id,
                                           NoId, SimilarityThreshold,
                                           limit + 1) : r # << >> } }
       \cup { << >> :
              r \in { x \in search_by_embedding(products_,
                                              products_[product_id].embedding,
                                              products_[product_id].store_id,
                                              NoId, SimilarityThreshold,
                                              limit + 1) : x = << >> } }

\* GET /search: search_products is called for a query
SearchProducts ==
  search_result = NoSearch /\
  \E query \in Queries, store_id \in {NoId} \cup DOMAIN stores :
  \E limit \in Limits, cause \in SearchCauses :
  \E query_embedding \in IF cause = "embedded" THEN QueryVectors
                          ELSE {NoEmbedding} :
  \E r \in search_products(products, query, store_id, NoId, cause # "off",
                            limit, cause # "unavailable", query_embedding) :
    /\ search_result' =
         [op |-> "search_products", query |-> query, store_id |-> store_id,
          limit |-> limit, product_id |-> NoId,
          text_results |-> r.text_results,
          vector_results |-> r.vector_results, products |-> r.products,
          scores |-> r.scores, search_type |-> r.search_type,
          cause |-> cause]
    /\ UNCHANGED <<stores, categories, manufacturers, products, store_cache,
                   category_cache, manufacturer_cache, stats, test_mode,
                   clock, last, workers, job>>
    /\ UNCHANGED runVars

\* ProductRepository.hybrid_search called by itself, with or without an
\* embedding of the query
HybridSearch ==
  search_result = NoSearch /\
  \E query \in Queries, store_id \in {NoId} \cup DOMAIN stores :
  \E limit \in Limits, embedding \in {NoEmbedding} \cup QueryVectors :
  \E h \in hybrid_search(products, query, embedding, store_id, NoId, limit) :
    /\ search_result' =
         [NoSearch EXCEPT
            !.op = "hybrid_search", !.query = query, !.store_id = store_id,
            !.limit = limit, !.text_results = h.text_results,
            !.vector_results = h.vector_results,
            !.products = [k \in DOMAIN h.results |-> h.results[k].id],
            !.scores = h.results, !.search_type = "hybrid",
            !.cause = IF embedding = NoEmbedding THEN "no_embedding"
                      ELSE "embedded"]
    /\ UNCHANGED <<stores, categories, manufacturers, products, store_cache,
                   category_cache, manufacturer_cache, stats, test_mode,
                   clock, last, workers, job>>
    /\ UNCHANGED runVars

\* GET /search/text-only: search_by_text is called with the stripped query
SearchTextOnly ==
  search_result = NoSearch /\
  \E query \in Queries, store_id \in {NoId} \cup DOMAIN stores :
  \E limit \in Limits :
  \E t \in search_by_text(products, Strip(query), store_id, NoId, limit) :
    /\ search_result' =
         [NoSearch EXCEPT
            !.op = "text_only", !.query = query, !.store_id = store_id,
            !.limit = limit, !.text_results = t, !.products = t,
            !.search_type = "text_only"]
    /\ UNCHANGED <<stores, categories, manufacturers, products, store_cache,
                   category_cache, manufacturer_cache, stats, test_mode,
                   clock, last, workers, job>>
    /\ UNCHANGED runVars

\* GET /search/similar: get_similar_products is called for a stored product
SimilarProducts ==
  search_result = NoSearch /\
  \E product_id \in DOMAIN products, limit \in Limits :
  \E r \in get_similar_products(products, product_id, limit) :
    /\ search_result' =
         [NoSearch EXCEPT
            !.op = "similar", !.product_id = product_id, !.limit = limit,
            !.store_id = products[product_id].store_id,
            !.vector_results = r,
            !.products = [k \in DOMAIN r |-> r[k].id]]
    /\ UNCHANGED <<stores, categories, manufacturers, products, store_cache,
                   category_cache, manufacturer_cache, stats, test_mode,
                   clock, last, workers, job>>
    /\ UNCHANGED runVars

\* the database the searches run on: two stores and any catalogue of
\* MaxProducts products
InitSearch ==
  /\ workers = [w \in Workers |-> IdleWorker]
  /\ item_pipelines = SettingsPipelines
  /\ crawler_stats = NewRunState.crawler_stats
  /\ validation_stats = NewRunState.validation_stats
  /\ seen_urls = NewRunState.seen_urls
  /\ duplicate_count = NewRunState.duplicate_count
  /\ reached = {}
  /\ last_run = [raw |-> NoRecord, item |-> NoRecord, ended |-> "none",
                 rule |-> "none"]
  /\ job = NoJob
  /\ search_result = NoSearch
  /\ utility = NoCall
  /\ stores = Stores2
  /\ categories = << >>
  /\ manufacturers = << >>
  /\ products \in Catalogues(MaxProducts)
  /\ store_cache = << >>
  /\ category_cache = << >>
  /\ manufacturer_cache = << >>
  /\ stats = [items_saved |-> 0, items_updated |-> 0, database_errors |-> 0]
  /\ test_mode = FALSE
  /\ clock = 1
  /\ last = [outcome |-> "none", rec |-> NoRecord, fail |-> NoFault,
             existing |-> NoId,
             old |-> NoProduct, product |-> NoId, price_changed |-> FALSE,
             store |-> NoId, category |-> NoId, manufacturer |-> NoId,
             category_failed |-> FALSE, manufacturer_failed |-> FALSE]

NextSearch ==
  SearchProducts \/ HybridSearch \/ SearchTextOnly \/ SimilarProducts

\* the search service on a stored catalogue; the service keeps no state
\* between calls, so one call is followed from each catalogue
SpecSearch == InitSearch /\ [][NextSearch]_vars

(* ----------------------- PriceParser (utilities) ---------------------- *)

\* the variables the utilities do not touch
dbVars ==
  <<stores, categories, manufacturers, products, store_cache, category_cache,
    manufacturer_cache, stats, test_mode, clock, last, workers>>
stageVars ==
  <<item_pipelines, crawler_stats, validation_stats, seen_urls,
    duplicate_count, reached, last_run>>

\* pattern in text
Contains(text, pattern) ==
  \E i \in 1..(Len(text) - Len(pattern) + 1) :
    SubSeq(text, i, i + Len(pattern) - 1) = pattern

\* a list of in-stock phrases without the German ones
in_stock_patterns_English ==
  << <<"a", "v", "a", "i", "l", "a", "b", "l", "e">>,
     <<"i", "n", " ", "s", "t", "o", "c", "k">> >>

\* detect_availability: in_stock_patterns
in_stock_patterns ==
  << <<"v", "e", "r", "f", "ü", "g", "b", "a", "r">>,
     <<"a", "v", "a", "i", "l", "a", "b", "l", "e">>,
     <<"a", "u", "f", " ", "l", "a", "g", "e", "r">>,
     <<"i", "n", " ", "s", "t", "o", "c", "k">>,
     <<"l", "i", "e", "f", "e", "r", "b", "a", "r">>,
     <<"s", "o", "f", "o", "r", "t", " ", "v", "e", "r", "f", "ü", "g", "b", "a", "r">>,
     <<"v", "o", "r", "r", "ä", "t", "i", "g">> >>

\* detect_availability: out_of_stock_patterns
out_of_stock_patterns ==
  << <<"n", "i", "c", "h", "t", " ", "v", "e", "r", "f", "ü", "g", "b", "a", "r">>,
     <<"o", "u", "t", " ", "o", "f", " ", "s", "t", "o", "c", "k">>,
     <<"a", "u", "s", "v", "e", "r", "k", "a", "u", "f", "t">>,
     <<"n", "i", "c", "h", "t", " ", "l", "i", "e", "f", "e", "r", "b", "a", "r">>,
     <<"t", "e", "m", "p", "o", "r", "ä", "r", " ", "n", "i", "c", "h", "t", " ", "v", "e", "r", "f", "ü", "g", "b", "a", "r">>,
     <<"n", "i", "c", "h", "t", " ", "v", "o", "r", "r", "ä", "t", "i", "g">>,
     <<"s", "o", "l", "d", " ", "o", "u", "t">> >>

\* words of availability texts that are on neither list as they stand
OtherWords ==
  << <<"A", "U", "S", "V", "E", "R", "K", "A", "U", "F", "T">>,
     <<"S", "o", "l", "d", " ", "O", "u", "t">>,
     <<"N", "i", "c", "h", "t", " ", "L", "i", "e", "f", "e", "r", "b", "a", "r">>,
     <<"A", "u", "f", " ", "L", "a", "g", "e", "r">>,
     <<"b", "a", "l", "d">>,
     <<"n", "i", "c", "h", "t">>,
     <<"v", "e", "r", "f", "u", "g", "b", "a", "r">> >>

\* the availability texts: nothing, blanks, one phrase or word with blanks
\* around it, two of them with a blank between
AvailabilityWords ==
  { in_stock_patterns[k] : k \in DOMAIN in_stock_patterns }
    \cup { out_of_stock_patterns[k] : k \in DOMAIN out_of_stock_patterns }
    \cup { OtherWords[k] : k \in DOMAIN OtherWords }
AvailabilityTexts ==
  { NoText, <<" ">>, <<" ", " ">> }
    \cup { l \o w \o r : l \in { << >>, <<" ">> }, w \in AvailabilityWords,
                         r \in { << >>, <<" ">> } }
    \cup { v \o <<" ">> \o w : v \in AvailabilityWords, w \in AvailabilityWords }

\* a detect_availability that looks for the out-of-stock phrases first
detect_availability_NegativeFirst(text) ==
  IF text = NoText THEN [status |-> "unknown", text |-> NoText]
  ELSE
    LET text_lower == Lower(text)
    IN IF \E k \in DOMAIN out_of_stock_patterns :
            Contains(text_lower, out_of_stock_patterns[k])
         THEN [status |-> "out_of_stock", text |-> Strip(text)]
       ELSE IF \E k \in DOMAIN in_stock_patterns :
                 Contains(text_lower, in_stock_patterns[k])
         THEN [status |-> "in_stock", text |-> Strip(text)]
       ELSE [status |-> "unknown", text |-> Strip(text)]

\* PriceParser.detect_availability: (status, availability_text); NoText is
\* None (the code never returns '' as availability_text)
detect_availability(text) ==
  IF text = NoText THEN [status |-> "unknown", text |-> NoText]
  ELSE
    LET text_lower == Lower(text)
    IN IF \E k \in DOMAIN in_stock_patterns :
            Contains(text_lower, in_stock_patterns[k])
         THEN [status |-> "in_stock", text |-> Strip(text)]
       ELSE IF \E k \in DOMAIN out_of_stock_patterns :
                 Contains(text_lower, out_of_stock_patterns[k])
         THEN [status |-> "out_of_stock", text |-> Strip(text)]
       ELSE [status |-> "unknown",
             text |-> IF Strip(text) # << >> THEN Strip(text) ELSE NoText]

\* PriceParser.detect_availability is called on a text
DetectAvailability ==
  /\ utility.op = "none"
  /\ \E text \in AvailabilityTexts :
       utility' = [op |-> "detect_availability", input |-> text,
                   result |-> detect_availability(text)]
  /\ UNCHANGED <<dbVars, stageVars, aiVars>>

\* \d, \s and [a-zA-Z] (with re.IGNORECASE) of the patterns
Digits == {"0", "1", "2", "3", "4", "5", "6", "7", "8", "9"}
Spaces == {" "}
AsciiLetters ==
  {"a", "b", "c", "d", "e", "f", "g", "h", "i", "j", "k", "l", "m", "n", "o",
   "p", "q", "r", "s", "t", "u", "v", "w", "x", "y", "z", "A", "B", "C", "D",
   "E", "F", "G", "H", "I", "J", "K", "L", "M", "N", "O", "P", "Q", "R", "S",
   "T", "U", "V", "W", "X", "Y", "Z"}

\* the character at position i, "" past the end
At(text, i) == IF i \in DOMAIN text THEN text[i] ELSE ""

RECURSIVE RunEnd(_, _, _)
\* the position after the longest run of characters of a class from i on
\* (a greedy \d+, \s* or [a-zA-Z]+)
RunEnd(text, i, class) ==
  IF At(text, i) \in class THEN RunEnd(text, i + 1, class) ELSE i

\* text[a-1:b], a slice as Python cuts it
Slice(text, a, b) ==
  IF a > b \/ a > Len(text) THEN << >>
  ELSE SubSeq(text, a, IF b > Len(text) THEN Len(text) ELSE b)

\* nothing matched
NoMatch == [matched |-> FALSE]

\* the one element of a set of one element; { f(x) : x \in {e} } computes
\* e once and f for its value
The(set) == CHOOSE x \in set : TRUE

\* PRICE_PATTERNS['base_price'] from the quantity on, (\d+(?:[.,]\d+)?)
\* \s*([a-zA-Z]+)(?:\))?, at position per, after group 1 was matched
BasePriceQuantityAt(text, group1, per) ==
  The(UNION {
    { LET blank == RunEnd(text, fraction, Spaces)
          letters == RunEnd(text, RunEnd(text, fraction, Spaces), AsciiLetters)
      IN IF units > per /\ letters > blank
           THEN [matched |-> TRUE, group1 |-> group1,
                 group2 |-> Slice(text, per, fraction - 1),
                 group3 |-> Slice(text, blank, letters - 1)]
         ELSE NoMatch :
      fraction \in { IF /\ At(text, units) \in {".", ","}
                        /\ RunEnd(text, units + 1, Digits) > units + 1
                       THEN RunEnd(text, units + 1, Digits) ELSE units } } :
    units \in { RunEnd(text, per, Digits) } })

\* PRICE_PATTERNS['base_price'] after group 1, (?:\s*€)?\s*[/]?\s*
\* (?:per\s+)?, at position cents
BasePriceAfterAmount(text, group1, cents) ==
  The(UNION {
    { LET slash == IF At(text, blank2) = "/" THEN blank2 + 1 ELSE blank2
          blank3 == RunEnd(text, slash, Spaces)
          spaced == RunEnd(text, blank3 + 3, Spaces)
      IN BasePriceQuantityAt(
           text, group1,
           IF /\ Lower(Slice(text, blank3, blank3 + 2)) = <<"p", "e", "r">>
              /\ spaced > blank3 + 3
             THEN spaced ELSE blank3) :
      blank2 \in { RunEnd(text, euro2, Spaces) } } :
    euro2 \in { IF At(text, RunEnd(text, cents, Spaces)) = "€"
                  THEN RunEnd(text, cents, Spaces) + 1 ELSE cents } })

\* PRICE_PATTERNS['base_price'] matched from position i on: groups 1 to 3.
\* A quantifier that gives up characters meets a character the rest of the
\* pattern cannot take, so the greedy match is the only one.
BasePriceMatchAt(text, i) ==
  The(UNION {
    { IF /\ whole > euro
         /\ At(text, whole) \in {",", "."}
         /\ At(text, whole + 1) \in Digits
         /\ At(text, whole + 2) \in Digits
        THEN BasePriceAfterAmount(text, Slice(text, euro, whole + 2), whole + 3)
      ELSE NoMatch :
      whole \in { RunEnd(text, euro, Digits) } } :
    euro \in { LET paren == IF At(text, i) = "(" THEN i + 1 ELSE i
               IN IF At(text, paren) = "€"
                    THEN RunEnd(text, paren + 1, Spaces) ELSE paren } })

\* PRICE_PATTERNS['base_price'].search(text): the leftmost match
BasePriceSearch(text) ==
  The({ IF starts = {} THEN NoMatch
        ELSE BasePriceMatchAt(text, CHOOSE i \in starts : \A j \in starts : i <= j) :
        starts \in { { i \in DOMAIN text : BasePriceMatchAt(text, i).matched } } })

\* int() of one digit
DigitValue(c) ==
  CASE c = "0" -> 0 [] c = "1" -> 1 [] c = "2" -> 2 [] c = "3" -> 3
    [] c = "4" -> 4 [] c = "5" -> 5 [] c = "6" -> 6 [] c = "7" -> 7
    [] c = "8" -> 8 [] c = "9" -> 9

RECURSIVE DigitsValue(_)
\* the number a string of digits writes
DigitsValue(ds) ==
  IF ds = << >> THEN 0
  ELSE 10 * DigitsValue(SubSeq(ds, 1, Len(ds) - 1)) + DigitValue(ds[Len(ds)])

\* Decimal(str) raised InvalidOperation
InvalidOperation == [valid |-> FALSE]

\* Decimal(str) for an unsigned number without exponent: the digits and
\* the number of them after the point; InvalidOperation for anything else
Decimal(str) ==
  LET point == RunEnd(str, 1, Digits)
      whole == Slice(str, 1, point - 1)
      places == Slice(str, point + 1, Len(str))
  IN IF /\ whole \o places # << >>
        /\ \A i \in DOMAIN str : str[i] \in Digits \/ (i = point /\ str[i] = ".")
       THEN [valid |-> TRUE, digits |-> DigitsValue(whole \o places),
             scale |-> Len(places)]
     ELSE InvalidOperation

RECURSIVE Float(_)
\* float(Decimal): the number without its trailing zeros
Float(d) ==
  IF d.scale > 0 /\ d.digits % 10 = 0
    THEN Float([d EXCEPT !.digits = @ \div 10, !.scale = @ - 1])
  ELSE d

\* None as amount or quantity
NoNumber == [valid |-> FALSE, none |-> TRUE]

\* PRICE_PATTERNS['unit_normalize'].get(unit_str, unit_str)
unit_normalize(unit_str) ==
  CASE unit_str \in { <<"g">>,
                     <<"g", "r">>,
                     <<"g", "r", "a", "m">>,
                     <<"g", "r", "a", "m", "o", "s">> }
      -> <<"g">>
    [] unit_str \in { <<"k", "g">>,
                     <<"k", "i", "l", "o">>,
                     <<"k", "i", "l", "o", "g", "r", "a", "m">>,
                     <<"k", "i", "l", "o", "s">> }
      -> <<"k", "g">>
    [] unit_str \in { <<"m", "l">>,
                     <<"m", "i", "l", "l", "i", "l", "i", "t", "e", "r">>,
                     <<"m", "i", "l", "l", "i", "l", "i", "t", "r", "o">> }
      -> <<"m", "l">>
    [] unit_str \in { <<"l">>,
                     <<"l", "i", "t", "e", "r">>,
                     <<"l", "i", "t", "r", "o">>,
                     <<"l", "i", "t", "r", "e">> }
      -> <<"L">>
    [] unit_str \in { <<"s", "t">>,
                     <<"s", "t", "ü", "c", "k">>,
                     <<"p", "i", "e", "c", "e">>,
                     <<"p", "c", "s">> }
      -> <<"p", "i", "e", "c", "e">>
    [] unit_str \in { <<"m">>,
                     <<"m", "e", "t", "e", "r">>,
                     <<"m", "e", "t", "r", "e">> }
      -> <<"m">>
    [] unit_str \in { <<"c", "m">>,
                     <<"c", "e", "n", "t", "i", "m", "e", "t", "e", "r">>,
                     <<"c", "e", "n", "t", "i", "m", "e", "t", "r", "e">> }
      -> <<"c", "m">>
    [] OTHER -> unit_str

\* a parser that leaves the quantity out of its answer
parse_base_price_NoQuantity(base_price_text) ==
  The({ IF base_price_text = NoText \/ ~match.matched
          THEN [amount |-> NoNumber, unit |-> NoText, quantity |-> NoNumber]
        ELSE [amount |-> Decimal(Replace(match.group1, ",", ".")),
              unit |-> unit_normalize(Strip(Lower(match.group3))),
              quantity |-> NoNumber] :
        match \in { BasePriceSearch(base_price_text) } })

\* PriceParser.parse_base_price: the statements of the try block in order;
\* a Decimal that raises ends the block with what was assigned before it
parse_base_price(base_price_text) ==
  The({ LET result ==
              [amount |-> NoNumber, unit |-> NoText, quantity |-> NoNumber]
            amount == Decimal(Replace(match.group1, ",", "."))
            quantity == Decimal(Replace(match.group2, ",", "."))
            unit_str == Strip(Lower(match.group3))
        IN IF base_price_text = NoText THEN result
           ELSE IF ~match.matched THEN result
           ELSE IF ~amount.valid THEN result
           ELSE IF ~quantity.valid THEN [result EXCEPT !.amount = amount]
           ELSE [amount |-> amount, unit |-> unit_normalize(unit_str),
                 quantity |-> quantity] :
        match \in { BasePriceSearch(base_price_text) } })

\* the base price texts: an amount and a quantity with a unit, with or
\* without brackets, euro signs, slash and "per", well formed or not
BasePriceTexts ==
  { NoText }
    \cup { open \o euro \o amount \o euro2 \o by \o quantity \o unit :
           open \in { << >>, <<"(">> },
           euro \in { << >>, <<"€", " ">> },
           amount \in
             { <<"1", ",", "9", "9">>,
               <<"2", ".", "5", "0">>,
               <<"1", "2", ",", "9">>,
               <<"1", ",", "9", "9", "5">> },
           euro2 \in { << >>, <<" ", "€">> },
           by \in
             { << >>,
               <<" ", "/", " ">>,
               <<"/">>,
               <<" ", "P", "E", "R", " ">>,
               <<"p", "e", "r">> },
           quantity \in
             { <<"1", "0", "0">>,
               <<"0", ",", "5", "0">>,
               <<"1", ".">>,
               << >> },
           unit \in
             { <<"g">>,
               <<" ", "K", "g">>,
               <<" ", "L", "i", "t", "e", "r", ")">>,
               << >>,
               <<"%">> } }

\* PriceParser.parse_base_price is called on a text
ParseBasePrice ==
  /\ utility.op = "none"
  /\ \E text \in BasePriceTexts :
       utility' = [op |-> "parse_base_price", input |-> text,
                   result |-> parse_base_price(text)]
  /\ UNCHANGED <<dbVars, stageVars, aiVars>>

(* ------------------------- EnrichmentPipeline ------------------------- *)

\* the position of the first occurrence of a literal that is followed by
\* a character of the class, 0 if there is none
FindGroup(text, literal, class) ==
  LET at == { i \in DOMAIN text :
                /\ Slice(text, i, i + Len(literal) - 1) = literal
                /\ At(text, i + Len(literal)) \in class }
  IN IF at = {} THEN 0 ELSE CHOOSE i \in at : \A j \in at : i <= j

\* match.group(1) of re.search(literal + '(class+)', text)
GroupAfter(text, literal, class) ==
  LET i == FindGroup(text, literal, class) + Len(literal)
  IN Slice(text, i, RunEnd(text, i, class) - 1)

\* DataEnricher.generate_sku_from_url: the URL patterns in order
\* (/products?/(\d+), /item/(\d+), [?&]id=(\d+), /p/([a-zA-Z0-9-]+)); the
\* eight hex digits of the md5 fallback are written "#" and the URL
generate_sku_from_url(product_url) ==
  LET edeka == <<"E", "D", "E", "K", "A", "-">>
      word == AsciiLetters \cup Digits \cup {"-"}
      patterns ==
        << [literal |-> <<"/", "p", "r", "o", "d", "u", "c", "t", "/">>, class |-> Digits],
           [literal |-> <<"/", "p", "r", "o", "d", "u", "c", "t", "s", "/">>, class |-> Digits],
           [literal |-> <<"/", "i", "t", "e", "m", "/">>, class |-> Digits],
           [literal |-> <<"?", "i", "d", "=">>, class |-> Digits],
           [literal |-> <<"&", "i", "d", "=">>, class |-> Digits],
           [literal |-> <<"/", "p", "/">>, class |-> word] >>
      found_at(k) == FindGroup(product_url, patterns[k].literal, patterns[k].class)
      \* /products?/ and [?&]id= are one pattern each: the leftmost of the
      \* two literals' matches counts
      first(k, l) ==
        IF found_at(k) = 0 THEN l
        ELSE IF found_at(l) = 0 THEN k
        ELSE IF found_at(k) < found_at(l) THEN k ELSE l
      hits == << first(1, 2), 3, first(4, 5), 6 >>
      matching == { n \in DOMAIN hits : found_at(hits[n]) # 0 }
      k == hits[CHOOSE n \in matching : \A m \in matching : n <= m]
  IN IF product_url = NoText THEN NoText
     ELSE IF matching = {} THEN edeka \o <<"#">> \o product_url
     ELSE edeka \o GroupAfter(product_url, patterns[k].literal, patterns[k].class)

\* no details (None)
NoDetails == [description_length |-> 0, pairs |-> {}]

\* DataEnricher.extract_product_details for a description of one line and
\* no selector data: its length and the "Key: Value" pair of the line
extract_product_details(description) ==
  LET keychars == AsciiLetters \cup Spaces
      starts == { i \in DOMAIN description :
                    /\ RunEnd(description, i, keychars) > i
                    /\ At(description, RunEnd(description, i, keychars)) = ":"
                    /\ RunEnd(description, i, keychars) < Len(description) }
      i == CHOOSE j \in starts : \A k \in starts : j <= k
      colon == RunEnd(description, i, keychars)
      key == Replace(Lower(Strip(Slice(description, i, colon - 1))), " ", "_")
      value == Strip(Slice(description, colon + 1, Len(description)))
  IN IF description = NoText THEN NoDetails
     ELSE [description_length |-> Len(description),
           pairs |-> IF starts = {} THEN {} ELSE { <<key, value>> }]

RECURSIVE KeepWordChars(_)
\* re.sub(r'[^\w\s-]', '', text)
KeepWordChars(text) ==
  IF text = << >> THEN << >>
  ELSE IF Head(text) \in AsciiLetters \cup Digits
                          \cup {"_", "-", " ", "ä", "ö", "ü", "ß"}
    THEN <<Head(text)>> \o KeepWordChars(Tail(text))
  ELSE KeepWordChars(Tail(text))

RECURSIVE CollapseHyphens(_)
\* re.sub(r'[-\s]+', '-', text)
CollapseHyphens(text) ==
  IF text = << >> THEN << >>
  ELSE IF Head(text) \in {"-", " "}
    THEN <<"-">> \o CollapseHyphens(
                      Slice(text, RunEnd(text, 1, {"-", " "}), Len(text)))
  ELSE <<Head(text)>> \o CollapseHyphens(Tail(text))

\* str.strip('-')
StripHyphens(text) ==
  LET first == RunEnd(text, 1, {"-"})
      rest == Slice(text, first, Len(text))
      ends == { j \in DOMAIN rest : rest[j] # "-" }
  IN IF ends = {} THEN << >>
     ELSE Slice(rest, 1, CHOOSE j \in ends : \A k \in ends : k <= j)

\* DataEnricher.create_store_slug = create_category_slug
create_store_slug(store_name) ==
  IF store_name = NoText THEN NoText
  ELSE StripHyphens(CollapseHyphens(KeepWordChars(Lower(store_name))))

\* the helper the fault makes raise (an exception inside the call)
EnrichFaults ==
  {"none", "parse_base_price", "generate_sku_from_url",
   "extract_manufacturer_from_name", "extract_product_details",
   "detect_availability", "create_store_slug"}

\* the fields an item has without a value
NoEnrichItem ==
  [base_price_text |-> NoText, base_price_amount |-> NoNumber,
   base_price_unit |-> NoText, base_price_quantity |-> NoNumber,
   sku |-> NoText, product_url |-> NoText, manufacturer_name |-> NoText,
   name |-> NoText, description |-> NoText, details |-> NoDetails,
   availability_text |-> NoText, in_stock |-> "unknown",
   store_name |-> NoText, store_slug |-> NoText, price_amount |-> NoPrice,
   needs_embedding |-> FALSE, is_new_product |-> FALSE,
   price_changed |-> TRUE, scrape_count |-> 0, scraped_at |-> NoTime,
   last_price_update |-> NoTime]

\* EnrichmentPipeline._parse_base_price; e is the item with the counters
\* counted so far
EnrichmentPipeline_parse_base_price(e, fault) ==
  The({ IF e.item.base_price_text = NoText THEN e
        ELSE IF fault = "parse_base_price"
          THEN [e EXCEPT !.counted = @ \cup {"base_price_parse_errors"}]
        ELSE IF ~parsed_price.amount.valid THEN e
        ELSE IF ~parsed_price.quantity.valid
          \* float(None) raises after two of the fields are set
          THEN [e EXCEPT !.item.base_price_amount = Float(parsed_price.amount),
                         !.item.base_price_unit = parsed_price.unit,
                         !.counted = @ \cup {"base_price_parse_errors"}]
        ELSE [e EXCEPT !.item.base_price_amount = Float(parsed_price.amount),
                       !.item.base_price_unit = parsed_price.unit,
                       !.item.base_price_quantity = Float(parsed_price.quantity),
                       !.counted = @ \cup {"base_prices_parsed"}] :
        parsed_price \in { parse_base_price(e.item.base_price_text) } })

\* EnrichmentPipeline._handle_sku_generation
EnrichmentPipeline_handle_sku_generation(e, fault) ==
  LET current_sku == e.item.sku
      generated_sku == generate_sku_from_url(e.item.product_url)
  IN IF \/ current_sku = NoText
        \/ current_sku \in { <<"N", "/", "A">>, <<"U", "n", "k", "n", "o", "w", "n">> }
        \/ Len(Strip(current_sku)) < 3
       THEN IF fault = "generate_sku_from_url" THEN e
            ELSE IF generated_sku # NoText
              THEN [e EXCEPT !.item.sku = generated_sku,
                             !.counted = @ \cup {"skus_generated"}]
            ELSE e
     ELSE e

\* a step that lets the exception of its helper out
EnrichmentPipeline_extract_manufacturer_NoTry(e, fault) ==
  IF e.item.manufacturer_name = NoText /\ e.item.name # NoText
    THEN IF fault = "extract_manufacturer_from_name"
           THEN [e EXCEPT !.raised = TRUE]
         ELSE IF extract_manufacturer_from_name(e.item.name) # NoText
           THEN [e EXCEPT !.item.manufacturer_name =
                            extract_manufacturer_from_name(e.item.name),
                          !.counted = @ \cup {"manufacturers_detected"}]
         ELSE e
  ELSE e

\* EnrichmentPipeline._extract_manufacturer
EnrichmentPipeline_extract_manufacturer(e, fault) ==
  IF e.item.manufacturer_name = NoText /\ e.item.name # NoText
    THEN IF fault = "extract_manufacturer_from_name" THEN e
         ELSE IF extract_manufacturer_from_name(e.item.name) # NoText
           THEN [e EXCEPT !.item.manufacturer_name =
                            extract_manufacturer_from_name(e.item.name),
                          !.counted = @ \cup {"manufacturers_detected"}]
         ELSE e
  ELSE e

\* EnrichmentPipeline._extract_structured_details; structured_details.
\* update(existing_details): the item's own details win
EnrichmentPipeline_extract_structured_details(e, fault) ==
  LET structured_details == extract_product_details(e.item.description)
      existing_details == e.item.details
      merged ==
        [description_length |-> structured_details.description_length,
         pairs |-> { kv \in structured_details.pairs :
                       \A old \in existing_details.pairs : old[1] # kv[1] }
                     \cup existing_details.pairs]
  IN IF e.item.description = NoText THEN e
     ELSE IF fault = "extract_product_details" THEN e
     ELSE [e EXCEPT !.item.details = merged,
                    !.counted = @ \cup {"details_extracted"}]

\* EnrichmentPipeline._process_availability
EnrichmentPipeline_process_availability(e, fault) ==
  LET detected == detect_availability(e.item.availability_text)
  IN IF e.item.availability_text # NoText /\ e.item.in_stock = "unknown"
       THEN IF fault = "detect_availability" THEN e
            ELSE [e EXCEPT !.item.in_stock = detected.status,
                           !.item.availability_text =
                             IF detected.text # NoText THEN detected.text ELSE @,
                           !.counted = @ \cup {detected.status}]
     ELSE e

\* EnrichmentPipeline._generate_slugs
EnrichmentPipeline_generate_slugs(e, fault) ==
  IF e.item.store_name # NoText /\ e.item.store_slug = NoText
    THEN IF fault = "create_store_slug" THEN e
         ELSE [e EXCEPT !.item.store_slug = create_store_slug(e.item.store_name)]
  ELSE e

\* EnrichmentPipeline._set_processing_flags and _update_metadata
EnrichmentPipeline_set_flags_and_metadata(e, now) ==
  [e EXCEPT !.item.needs_embedding = TRUE,
            !.item.is_new_product = TRUE,
            !.item.price_changed = FALSE,
            !.item.scrape_count = IF @ = 0 THEN 1 ELSE @,
            !.item.scraped_at = IF @ = NoTime THEN now ELSE @,
            !.item.last_price_update =
              IF e.item.price_amount # NoPrice THEN now ELSE @]

\* the k-th step of the try block of process_item
EnrichmentStep(e, fault, now, k) ==
  CASE k = 1 -> EnrichmentPipeline_parse_base_price(e, fault)
    [] k = 2 -> EnrichmentPipeline_handle_sku_generation(e, fault)
    [] k = 3 -> EnrichmentPipeline_extract_manufacturer(e, fault)
    [] k = 4 -> EnrichmentPipeline_extract_structured_details(e, fault)
    [] k = 5 -> EnrichmentPipeline_process_availability(e, fault)
    [] k = 6 -> EnrichmentPipeline_generate_slugs(e, fault)
    [] k = 7 -> EnrichmentPipeline_set_flags_and_metadata(e, now)

RECURSIVE EnrichmentSteps(_, _, _, _)
\* the steps from the k-th on, in order; an exception that leaves a step
\* ends the try block
EnrichmentSteps(e, fault, now, k) ==
  IF k > 7 \/ e.raised THEN e
  ELSE The({ EnrichmentSteps(next, fault, now, k + 1) :
             next \in { EnrichmentStep(e, fault, now, k) } })

\* EnrichmentPipeline.process_item: the steps inside one try; the item is
\* returned after the last step and from the except clause
EnrichmentPipeline_process_item(item, fault, now) ==
  The({ [returned |-> TRUE, item |-> e.item,
         counted |-> e.counted
                       \cup IF e.raised THEN {"errors"} ELSE {"items_enriched"}] :
        e \in { EnrichmentSteps([item |-> item, counted |-> {}, raised |-> FALSE],
                                fault, now, 1) } })

\* what a spider puts on the item of the base price: nothing, the text
\* alone (one that parses and one that does not), or the text with the
\* amount and unit its own call of parse_base_price gave (edeka24)
SpiderBasePrices ==
  { [text |-> NoText, amount |-> NoNumber, unit |-> NoText],
    [text |-> <<"1", "2", ",", "9", "/", "k", "g">>, amount |-> NoNumber, unit |-> NoText] }
    \cup LET text == <<"1", ",", "9", "9", " ", "€", " ", "/", " ", "1", "0", "0", " ", "g">>
         IN { [text |-> text, amount |-> NoNumber, unit |-> NoText],
              [text |-> text, amount |-> parse_base_price(text).amount,
               unit |-> parse_base_price(text).unit] }

\* the items that reach the enrichment stage: validated (name, URL and
\* store name are there), with or without the optional fields
EnrichItems ==
  { [NoEnrichItem EXCEPT
       !.base_price_text = base_price.text,
       !.base_price_amount = base_price.amount,
       !.base_price_unit = base_price.unit, !.sku = sku,
       !.product_url = product_url, !.manufacturer_name = manufacturer_name,
       !.name = Milch, !.description = description,
       !.availability_text = availability_text, !.in_stock = in_stock,
       !.store_name = <<"E", " ", "2", "4", "!">>, !.store_slug = store_slug,
       !.price_amount = 129] :
      base_price \in SpiderBasePrices,
      sku \in { NoText, <<"A", "-", "1">> },
      product_url \in { <<"/", "p", "/", "a", "1">>, <<"/", "m">> },
      manufacturer_name \in { NoText, DrO },
      description \in { NoText, <<"A", "r", "t", ":", " ", "B", "i", "o">> },
      availability_text \in { NoText, <<"A", "u", "f", " ", "L", "a", "g", "e", "r", " ">> },
      in_stock \in { "unknown", "in_stock" },
      store_slug \in { NoText, <<"e", "2", "4">> } }

\* Scrapy hands an item to EnrichmentPipeline.process_item; one helper may
\* raise
Enrich ==
  /\ utility.op = "none"
  /\ \E item \in EnrichItems, fault \in EnrichFaults :
       utility' = [op |-> "enrich", input |-> item, fault |-> fault,
                   result |-> EnrichmentPipeline_process_item(item, fault, clock)]
  /\ UNCHANGED <<dbVars, stageVars, aiVars>>

(* --------------------- DatabaseManager.get_session -------------------- *)

\* how a use of the session scope can go: the block under `with` returns
\* or raises, and session.commit() or session.rollback() may raise (lost
\* connection, constraint checked at commit)
SessionUses ==
  [block : {"return", "raise"}, commit_fails : BOOLEAN,
   rollback_fails : BOOLEAN]

\* a scope that commits after the try statement: a failing commit is not
\* rolled back
get_session_CommitOutsideTry(use) ==
  IF use.block = "raise"
    THEN [calls |-> <<"rollback", "close">>, outcome |-> "raised",
          error |-> IF use.rollback_fails THEN "rollback" ELSE "block"]
  ELSE IF use.commit_fails
    THEN [calls |-> <<"close", "commit">>, outcome |-> "raised",
          error |-> "commit"]
  ELSE [calls |-> <<"close", "commit">>, outcome |-> "returned",
        error |-> "none"]

\* DatabaseManager.get_session around one block: the calls made on the
\* session in order, and what the caller of the `with` statement sees
get_session(use) ==
  LET \* try: yield session; session.commit()
      tried == IF use.block = "return" THEN <<"commit">> ELSE << >>
      failed == IF use.block = "raise" THEN "block"
                ELSE IF use.commit_fails THEN "commit"
                ELSE "none"
      \* except Exception: session.rollback(); raise
      handled == IF failed # "none" THEN tried \o <<"rollback">> ELSE tried
      error == IF failed # "none" /\ use.rollback_fails THEN "rollback"
               ELSE failed
      \* finally: session.close()
  IN [calls |-> handled \o <<"close">>,
      outcome |-> IF error = "none" THEN "returned" ELSE "raised",
      error |-> error]

\* a block runs inside `with db_manager.get_session() as session`
UseSession ==
  /\ utility.op = "none"
  /\ \E use \in SessionUses :
       utility' = [op |-> "get_session", input |-> use,
                   result |-> get_session(use)]
  /\ UNCHANGED <<dbVars, stageVars, aiVars>>

NextParse == DetectAvailability \/ ParseBasePrice \/ Enrich \/ UseSession

\* each utility called once on each of its inputs
SpecParse == Init /\ [][NextParse]_vars

(* ------------------- two workers on one database ---------------------- *)

\* the items the two workers reconcile: one store, one category path, one
\* manufacturer, so that every entity a second item names exists or is
\* being created by the first
ConcRecords ==
  { r \in Records : /\ r.category_path = <<Obst, Bio>>
                    /\ r.manufacturer_name = DrO
                    /\ r.price_amount = 129 }

\* the variables of the single-process specification
seqVars ==
  <<store_cache, category_cache, manufacturer_cache, stats, last,
    item_pipelines, crawler_stats, validation_stats, seen_urls,
    duplicate_count, reached, last_run, job, search_result, utility>>

\* worker w goes on to category resolution, or past it for an empty path
ToCategory(wk, store, cache) ==
  [wk EXCEPT !.store = store, !.store_cache = cache, !.level = 1,
             !.parent = NoId,
             !.pc = IF wk.rec.category_path = << >>
                      THEN "manufacturer_lookup" ELSE "category_lookup"]

\* worker w leaves process_item through its except branch
ToError(wk, test_mode_) ==
  [wk EXCEPT !.pc = "idle", !.outcome = ErrorOutcome(test_mode_),
             !.product = NoId]

\* process_item is called in worker w
Begin(w, rec) ==
  /\ workers[w].pc = "idle"
  /\ clock < MaxItems
  /\ clock' = clock + 1
  /\ workers' = [workers EXCEPT ![w] =
       [@ EXCEPT !.pc = "store_lookup", !.rec = rec, !.now = NoTime,
                 !.outcome = "none", !.product = NoId, !.store = NoId,
                 !.category_failed = FALSE, !.manufacturer = NoId,
                 !.manufacturer_failed = FALSE, !.existing = NoId,
                 !.loaded = NoProduct]]
  /\ UNCHANGED <<stores, categories, manufacturers, products, test_mode>>
  /\ UNCHANGED seqVars

\* _get_or_create_store up to the query by slug
StoreLookup(w) ==
  LET wk == workers[w]
      key == StoreCacheKey(wk.rec)
      found == StoreBySlug(stores, StoreSlugOf(wk.rec))
  IN /\ wk.pc = "store_lookup"
     /\ workers' = [workers EXCEPT ![w] =
          IF key \in DOMAIN wk.store_cache /\ Live(stores, wk.store_cache[key])
            THEN ToCategory(wk, wk.store_cache[key], wk.store_cache)
          ELSE IF found # NoId
            THEN ToCategory(wk, found, (key :> found) @@ wk.store_cache)
          ELSE [wk EXCEPT !.pc = "store_insert"]]
     /\ UNCHANGED <<stores, categories, manufacturers, products, test_mode, clock>>
     /\ UNCHANGED seqVars

\* store_repo.create: INSERT and COMMIT; the IntegrityError of a lost race
\* is re-raised by _get_or_create_store and ends the item
StoreInsert(w) ==
  LET wk == workers[w]
      row == StoreRow(wk.rec)
  IN /\ wk.pc = "store_insert"
     /\ IF StoreInsertOk(stores, row)
          THEN /\ stores' = Append(stores, row)
               /\ workers' = [workers EXCEPT ![w] =
                    ToCategory(wk, Len(stores) + 1,
                      (StoreCacheKey(wk.rec) :> (Len(stores) + 1)) @@ wk.store_cache)]
          ELSE /\ stores' = stores
               /\ workers' = [workers EXCEPT ![w] = ToError(wk, test_mode)]
     /\ UNCHANGED <<categories, manufacturers, products, test_mode, clock>>
     /\ UNCHANGED seqVars

\* worker w goes on to the next level of the path, or to the manufacturer
AfterLevel(wk, id, cache) ==
  [wk EXCEPT !.parent = id, !.category_cache = cache, !.level = wk.level + 1,
             !.pc = IF wk.level + 1 > Len(wk.rec.category_path)
                      THEN "manufacturer_lookup" ELSE "category_lookup"]

\* one pass of the loop of _get_or_create_category_hierarchy up to the
\* query by slug and parent
CategoryLookup(w) ==
  LET wk == workers[w]
      info == CategoryHierarchy(wk.rec.category_path)[wk.level]
      key == CategoryCacheKey(info, wk.parent)
      found == CategoryBySlugParent(categories, info.slug, wk.parent)
  IN /\ wk.pc = "category_lookup"
     /\ workers' = [workers EXCEPT ![w] =
          IF /\ key \in DOMAIN wk.category_cache
             /\ Live(categories, wk.category_cache[key])
            THEN AfterLevel(wk, wk.category_cache[key], wk.category_cache)
          ELSE IF found # NoId
            THEN AfterLevel(wk, found, (key :> found) @@ wk.category_cache)
          ELSE [wk EXCEPT !.pc = "category_insert"]]
     /\ UNCHANGED <<stores, categories, manufacturers, products, test_mode, clock>>
     /\ UNCHANGED seqVars

\* category_repo.create: INSERT and COMMIT; the IntegrityError of a lost
\* race is caught by the hierarchy method, which returns None
CategoryInsert(w) ==
  LET wk == workers[w]
      info == CategoryHierarchy(wk.rec.category_path)[wk.level]
      row == CategoryRow(categories, info, wk.parent)
  IN /\ wk.pc = "category_insert"
     /\ IF CategoryInsertOk(categories, row)
          THEN /\ categories' = Append(categories, row)
               /\ workers' = [workers EXCEPT ![w] =
                    AfterLevel(wk, Len(categories) + 1,
                      (CategoryCacheKey(info, wk.parent) :> (Len(categories) + 1))
                        @@ wk.category_cache)]
          ELSE /\ categories' = categories
               /\ workers' = [workers EXCEPT ![w] =
                    IF CategoryErrorPropagates THEN ToError(wk, test_mode)
                    ELSE [wk EXCEPT !.parent = NoId, !.category_failed = TRUE,
                                    !.pc = "manufacturer_lookup"]]
     /\ UNCHANGED <<stores, manufacturers, products, test_mode, clock>>
     /\ UNCHANGED seqVars

\* _get_or_create_manufacturer up to the query by name
ManufacturerLookup(w) ==
  LET wk == workers[w]
      name == wk.rec.manufacturer_name
      found == ManufacturerByName(manufacturers, name)
      go(id, cache) == [wk EXCEPT !.manufacturer = id, !.manufacturer_cache = cache,
                                  !.pc = "product_lookup"]
  IN /\ wk.pc = "manufacturer_lookup"
     /\ workers' = [workers EXCEPT ![w] =
          IF name = NoText THEN go(NoId, wk.manufacturer_cache)
          ELSE IF /\ name \in DOMAIN wk.manufacturer_cache
                  /\ Live(manufacturers, wk.manufacturer_cache[name])
            THEN go(wk.manufacturer_cache[name], wk.manufacturer_cache)
          ELSE IF found # NoId
            THEN go(found, (name :> found) @@ wk.manufacturer_cache)
          ELSE [wk EXCEPT !.pc = "manufacturer_insert"]]
     /\ UNCHANGED <<stores, categories, manufacturers, products, test_mode, clock>>
     /\ UNCHANGED seqVars

\* manufacturer_repo.create: INSERT and COMMIT; the IntegrityError of a
\* lost race is caught by _get_or_create_manufacturer, which returns None
ManufacturerInsert(w) ==
  LET wk == workers[w]
      name == wk.rec.manufacturer_name
      row == ManufacturerRow(name)
  IN /\ wk.pc = "manufacturer_insert"
     /\ IF ManufacturerInsertOk(manufacturers, row)
          THEN /\ manufacturers' = Append(manufacturers, row)
               /\ workers' = [workers EXCEPT ![w] =
                    [wk EXCEPT !.manufacturer = Len(manufacturers) + 1,
                               !.manufacturer_cache =
                                 (name :> (Len(manufacturers) + 1))
                                   @@ wk.manufacturer_cache,
                               !.pc = "product_lookup"]]
          ELSE /\ manufacturers' = manufacturers
               /\ workers' = [workers EXCEPT ![w] =
                    IF ManufacturerErrorPropagates THEN ToError(wk, test_mode)
                    ELSE [wk EXCEPT !.manufacturer = NoId,
                                    !.manufacturer_failed = TRUE,
                                    !.pc = "product_lookup"]]
     /\ UNCHANGED <<stores, categories, products, test_mode, clock>>
     /\ UNCHANGED seqVars

\* product_repo.get_by_url: the row is loaded into the worker's session;
\* _prepare_product_data reads the time
ProductLookup(w) ==
  LET wk == workers[w]
      existing == get_by_url(products, wk.rec.product_url)
  IN /\ wk.pc = "product_lookup"
     /\ workers' = [workers EXCEPT ![w] =
          [wk EXCEPT !.existing = existing, !.now = clock,
                     !.loaded = IF existing # NoId THEN products[existing]
                                ELSE NoProduct,
                     !.pc = "product_write"]]
     /\ UNCHANGED <<stores, categories, manufacturers, products, test_mode, clock>>
     /\ UNCHANGED seqVars

\* the UPDATE the session flushes: the columns whose value in the session
\* object (loaded, then update_from_dict) differs from the loaded one
FlushUpdate(current, loaded, data) ==
  [f \in DOMAIN current |->
     IF f \in DOMAIN data /\ data[f] # loaded[f] THEN data[f] ELSE current[f]]

\* the rest of _process_product: update the loaded product or create one
\* (INSERT and COMMIT; the IntegrityError of a lost race is re-raised)
ProductWrite(w) ==
  LET wk == workers[w]
      leaf == IF wk.category_failed THEN NoId ELSE wk.parent
      product_data == prepare_product_data(wk.rec, wk.store, leaf,
                                           wk.manufacturer, wk.now)
      row == Touch(NewProductRow(product_data), wk.now)
      updated == Touch(FlushUpdate(products[wk.existing], wk.loaded,
                                   UpdateData(wk.loaded, product_data, wk.now)),
                       wk.now)
      saved(id) == [wk EXCEPT !.pc = "idle", !.outcome = "saved", !.product = id]
  IN /\ wk.pc = "product_write"
     /\ IF wk.existing # NoId
          THEN /\ products' = [products EXCEPT ![wk.existing] =
                    update_search_text(updated, categories, manufacturers)]
               /\ workers' = [workers EXCEPT ![w] = saved(wk.existing)]
        ELSE IF ProductInsertOk(products, row)
          THEN /\ products' = Append(products,
                    update_search_text(row, categories, manufacturers))
               /\ workers' = [workers EXCEPT ![w] = saved(Len(products) + 1)]
        ELSE /\ products' = products
             /\ workers' = [workers EXCEPT ![w] = ToError(wk, test_mode)]
     /\ UNCHANGED <<stores, categories, manufacturers, test_mode, clock>>
     /\ UNCHANGED seqVars

NextConc ==
  \E w \in Workers :
    \/ \E rec \in ConcRecords : Begin(w, rec)
    \/ StoreLookup(w)
    \/ StoreInsert(w)
    \/ CategoryLookup(w)
    \/ CategoryInsert(w)
    \/ ManufacturerLookup(w)
    \/ ManufacturerInsert(w)
    \/ ProductLookup(w)
    \/ ProductWrite(w)

SpecConc == Init /\ [][NextConc]_vars

(* ------------------------- words for the claims ----------------------- *)

\* this step is one call of process_item (the clock ticks once per item)
ItemStep == clock' = clock + 1

\* the last item was reconciled to the end: process_item returned it after
\* _process_product returned a product
Saved == last.outcome = "saved"

\* the last item's reconciliation failed: process_item took its except branch
Failed == last.outcome \in {"passed", "dropped"}

\* the last item's URL was already stored when the item arrived
Resighted == last.existing # NoId

(* ------------------------------- C1 ----------------------------------- *)

\* C1: there is at most one Product per product URL; a record whose URL is
\* not stored creates one Product row, a record whose URL is stored is
\* reconciled with that row and adds none (when the database answers every
\* statement both succeed), and no step removes or re-keys a Product row.
C1_OneProductPerUrl ==
  [][ /\ \A i, j \in DOMAIN products' :
           products'[i].product_url = products'[j].product_url => i = j
      /\ Len(products') >= Len(products)
      /\ \A i \in DOMAIN products :
           products'[i].product_url = products[i].product_url
      /\ (ItemStep /\ last'.fail = NoFault) =>
           /\ last'.outcome = "saved"
           /\ products'[last'.product].product_url = last'.rec.product_url
           /\ IF last'.existing = NoId
                THEN /\ Len(products') = Len(products) + 1
                     /\ last'.product = Len(products')
                ELSE /\ Len(products') = Len(products)
                     /\ last'.product = last'.existing ]_vars

\* a second sighting of a URL has been reconciled with the one stored row
C1_Witness ==
  /\ Saved /\ Resighted
  /\ Len(products) = 1
  /\ products[1].scrape_count = 2

(* ------------------------------- C2 ----------------------------------- *)

\* C2: a record reconciled against an existing Product with the stored
\* numeric price leaves the Product's last_price_update as it was and has
\* price_changed = false.
C2_SamePriceKeepsLastPriceUpdate ==
  (/\ Saved /\ Resighted
   /\ last.rec.price_amount # NoPrice
   /\ last.rec.price_amount = last.old.price_amount)
  => /\ products[last.product].last_price_update = last.old.last_price_update
     /\ last.price_changed = FALSE

(* ------------------------------- C3 ----------------------------------- *)

\* C3: a record reconciled against an existing Product with a non-null
\* price that differs from the stored one gets price_changed = true, the
\* stored price becomes the record's price and last_price_update becomes
\* the time of this reconciliation.
C3_PriceChangeDetected ==
  (/\ Saved /\ Resighted
   /\ last.rec.price_amount # NoPrice
   /\ last.rec.price_amount # last.old.price_amount)
  => /\ last.price_changed = TRUE
     /\ products[last.product].price_amount = last.rec.price_amount
     /\ products[last.product].last_price_update = clock

\* a stored price of 1,29 has been replaced by 1,49
C3_Witness ==
  /\ Saved /\ Resighted
  /\ last.old.price_amount = 129
  /\ last.rec.price_amount = 149
  /\ last.price_changed
  /\ products[last.product].price_amount = 149

(* ------------------------------- C4 ----------------------------------- *)

\* C4: scrape_count is 1 after a Product's creation, one more than before
\* after every later successful reconciliation of its URL, and no step
\* lowers it.
C4_ScrapeCount ==
  [][ /\ \A i \in DOMAIN products :
           products'[i].scrape_count >= products[i].scrape_count
      /\ (ItemStep /\ last'.outcome = "saved") =>
           products'[last'.product].scrape_count =
             IF last'.existing = NoId THEN 1
             ELSE products[last'.existing].scrape_count + 1 ]_vars

\* an unchanged record has been reconciled a second time
C4_Witness ==
  /\ Saved /\ Resighted
  /\ last.rec.price_amount = last.old.price_amount
  /\ last.old.scrape_count = 1
  /\ products[last.product].scrape_count = 2

(* ------------------------------- C5 ----------------------------------- *)

RECURSIVE ChainLeaves(_, _, _, _)
\* the categories at the end of the chain path[i..] below parent, each
\* level found by its name under the level before
ChainLeaves(cats, path, i, parent) ==
  IF i > Len(path) THEN {parent}
  ELSE UNION { ChainLeaves(cats, path, i + 1, c) :
                 c \in { k \in DOMAIN cats : /\ cats[k].name = path[i]
                                             /\ cats[k].parent_id = parent } }

\* C5: after a record's category path is reconciled (cold or warm cache,
\* the database answering every statement) there is exactly one Category
\* per level of the path, the call returns its leaf, and no two Categories
\* share a (name, parent) pair.
C5_CategoryResolutionIdempotent ==
  /\ \A i, j \in DOMAIN categories :
       (/\ categories[i].name = categories[j].name
        /\ categories[i].parent_id = categories[j].parent_id) => i = j
  /\ (/\ Saved /\ last.fail = NoFault /\ last.rec.category_path # << >>)
     => ChainLeaves(categories, last.rec.category_path, 1, NoId)
          = {last.category}

(* ------------------------------- C6 ----------------------------------- *)

\* C6: a record whose path is <<parent, leaf>> ends with its Product
\* attached to a Category named leaf whose parent is the root Category
\* named parent, also when a Category named leaf exists under another
\* parent.
C6_SameNameUnderDifferentParents ==
  (/\ Saved /\ last.fail = NoFault /\ Len(last.rec.category_path) = 2)
  => LET c == products[last.product].category_id
     IN /\ c # NoId
        /\ categories[c].name = last.rec.category_path[2]
        /\ categories[c].parent_id # NoId
        /\ categories[categories[c].parent_id].name = last.rec.category_path[1]
        /\ categories[categories[c].parent_id].parent_id = NoId

(* ------------------------------- C7 ----------------------------------- *)

\* C7: when the reconciliation of a record fails, the four tables are
\* afterwards what they were before the record was started.
C7_AllOrNothing ==
  [][ (ItemStep /\ last'.outcome \in {"passed", "dropped"}) =>
        /\ stores' = stores
        /\ categories' = categories
        /\ manufacturers' = manufacturers
        /\ products' = products ]_vars

(* ------------------------------- C8 ----------------------------------- *)

\* C8: when category-hierarchy resolution or manufacturer resolution
\* raises during a record, no Product is created or updated for it.
C8_ResolutionErrorAbortsRecord ==
  [][ (ItemStep /\ (last'.category_failed \/ last'.manufacturer_failed)) =>
        products' = products ]_vars

(* ------------------------------- C9 ----------------------------------- *)

C10_RaceLoserRefetches ==
  /\ \A i, j \in DOMAIN stores : stores[i].slug = stores[j].slug => i = j
  /\ \A i, j \in DOMAIN categories :
       (/\ categories[i].name = categories[j].name
        /\ categories[i].parent_id = categories[j].parent_id) => i = j
  /\ \A i, j \in DOMAIN manufacturers :
       manufacturers[i].name = manufacturers[j].name => i = j
  /\ \A w \in Workers :
       (workers[w].pc = "idle" /\ workers[w].outcome # "none")
       => /\ workers[w].outcome = "saved"
          /\ ~workers[w].category_failed
          /\ ~workers[w].manufacturer_failed
          /\ products[workers[w].product].category_id # NoId
          /\ products[workers[w].product].manufacturer_id # NoId

(* ------------------------------- C11 ---------------------------------- *)

\* the persisted tables are left as they were by this step
TablesUnchanged ==
  /\ stores' = stores
  /\ categories' = categories
  /\ manufacturers' = manufacturers
  /\ products' = products

\* the crawler counter of the first required field the item lacks
MissingKey(item) ==
  IF item.name = NoText \/ Strip(item.name) = << >>
    THEN "validation_pipeline/missing_name"
  ELSE IF item.product_url \in {"", " "}
    THEN "validation_pipeline/missing_product_url"
  ELSE "validation_pipeline/missing_store_name"

\* C11: an item whose name, product URL or store name is missing or blank
\* ends in the validation stage: it is not handed to the database stage,
\* no table changes, and of the counters of the required-field rules
\* exactly the one of the failed rule grows, by 1.
C11_InvalidRecordDropped ==
  [][ (/\ clock' = clock + 1
       /\ \/ IsBlank(last_run'.raw.name)
          \/ IsBlankUrl(last_run'.raw.product_url)
          \/ IsBlank(last_run'.raw.store.name))
      => /\ last_run'.ended = "ValidationPipeline"
         /\ TablesUnchanged
         /\ reached' = reached
         /\ stats' = stats
         /\ \A k \in {"validation_pipeline/missing_name",
                       "validation_pipeline/missing_product_url",
                       "validation_pipeline/missing_store_name"} :
              crawler_stats'[k] =
                crawler_stats[k]
                  + (IF k = MissingKey(last_run'.raw) THEN 1 ELSE 0) ]_vars

\* an item without a name has been dropped after a product was stored
C11_Witness ==
  /\ last_run.ended = "ValidationPipeline"
  /\ last_run.raw.name = NoText
  /\ crawler_stats["validation_pipeline/missing_name"] = 1
  /\ Len(products) = 1
  /\ stats.items_saved = 1

(* ------------------------------- C12 ---------------------------------- *)

\* C12: within one run an item whose URL was already handed to the
\* database stage is dropped by duplicate detection and changes no table.
C12_OneRecordPerUrlPerRun ==
  [][ (/\ clock' = clock + 1
       /\ last_run'.ended # "ValidationPipeline"
       /\ last_run'.item.product_url \in reached)
      => /\ last_run'.ended = "DuplicateDetectionPipeline"
         /\ TablesUnchanged ]_vars

(* ------------------------------- C13 ---------------------------------- *)

\* the last call was search_products and it could not use the vector stage
Degraded ==
  /\ search_result.op = "search_products"
  /\ search_result.cause \in {"off", "unavailable", "no_embedding"}

\* what the lexical-only search can return for the last call's query,
\* filters and limit
LexicalOutputs ==
  search_by_text(products, search_result.query, search_result.store_id, NoId,
                 search_result.limit)

\* C13 as stated: a search_products call that cannot use the vector stage
\* reports the one lexical-only search_type and returns the lexical-only
\* search's list, empty only if that list is empty.
C13_SingleLexicalOnlyType ==
  Degraded
  => /\ search_result.search_type = "text_only"
     /\ search_result.products \in LexicalOutputs
     /\ search_result.products = << >> => LexicalOutputs = { << >> }

\* C13, amended: such a call returns the lexical-only search's list, empty
\* only if that list is empty, and reports search_type text_only when AI
\* ranking is off or the service is unavailable, text_fallback when no
\* query embedding came back.
C13_DegradedSearchIsLexical ==
  Degraded
  => /\ search_result.search_type =
          IF search_result.cause = "no_embedding" THEN "text_fallback"
          ELSE "text_only"
     /\ search_result.products \in LexicalOutputs
     /\ search_result.products = << >> => LexicalOutputs = { << >> }

\* no query embedding came back and the two matching products were
\* returned
C13_Witness ==
  /\ Degraded
  /\ search_result.cause = "no_embedding"
  /\ search_result.search_type = "text_fallback"
  /\ Len(search_result.products) = 2
  /\ search_result.products = search_result.text_results

(* ------------------------------- C14 ---------------------------------- *)

\* the product ids of a stage's output
TextCandidates == { search_result.text_results[i] : i \in DOMAIN search_result.text_results }
VectorCandidates == { search_result.vector_results[i].id : i \in DOMAIN search_result.vector_results }

\* a candidate's score from the text stage, 0 if the stage did not return it
StageTextScore(id) ==
  IF id \in TextCandidates
    THEN TextScore(CHOOSE i \in DOMAIN search_result.text_results :
                     search_result.text_results[i] = id,
                   Len(search_result.text_results))
  ELSE 0

\* a candidate's score from the vector stage, 0 if the stage did not
\* return it
StageVectorScore(id) ==
  IF id \in VectorCandidates
    THEN VectorScore((CHOOSE v \in { search_result.vector_results[i] :
                                      i \in DOMAIN search_result.vector_results } :
                        v.id = id).similarity)
  ELSE 0

\* C14: a hybrid result lists every product once, with total_score =
\* text_score + vector_score (0 for a stage that did not return the
\* product), in non-increasing order of total_score; it is as long as the
\* limit allows and no candidate left out has a higher total than a
\* returned one.
C14_HybridRanking ==
  (search_result.op = "search_products" /\ search_result.search_type = "hybrid")
  => LET sc == search_result.scores
         cand == TextCandidates \cup VectorCandidates
         returned == { sc[k].id : k \in DOMAIN sc }
     IN /\ Len(sc) = IF Cardinality(cand) < search_result.limit
                       THEN Cardinality(cand) ELSE search_result.limit
        /\ returned \subseteq cand
        /\ \A k, l \in DOMAIN sc : sc[k].id = sc[l].id => k = l
        /\ \A k \in DOMAIN sc :
             /\ sc[k].text_score = StageTextScore(sc[k].id)
             /\ sc[k].vector_score = StageVectorScore(sc[k].id)
             /\ sc[k].total_score = sc[k].text_score + sc[k].vector_score
        /\ \A k \in 1..(Len(sc) - 1) : sc[k].total_score >= sc[k + 1].total_score
        /\ \A c \in cand \ returned : \A k \in DOMAIN sc :
             StageTextScore(c) + StageVectorScore(c) <= sc[k].total_score

\* with limit 1, the second of two text results wins by its vector score
\* and the first is left out
C14_Witness ==
  /\ search_result.op = "search_products"
  /\ search_result.search_type = "hybrid"
  /\ search_result.limit = 1
  /\ Len(search_result.text_results) = 2
  /\ Len(search_result.scores) = 1
  /\ search_result.scores[1].id = search_result.text_results[2]
  /\ search_result.scores[1].vector_score > 0
  /\ search_result.scores[1].text_score > 0

(* ------------------------------- C15 ---------------------------------- *)

\* the products other than the base product that the similar-products
\* query is to find: same store, an embedding within the threshold
SimilarOthers(product_id) ==
  { i \in DOMAIN products \ {product_id} :
      /\ products[i].store_id = products[product_id].store_id
      /\ products[i].embedding # NoEmbedding
      /\ 10 * (NormSq - Dot(products[i].embedding, products[product_id].embedding))
           < (10 - SimilarityThreshold) * NormSq }

\* C15: the similar products of a base product with an embedding never
\* include the base product, and are as many of the other qualifying
\* products as the limit allows.
C15_SimilarExcludesBase ==
  (/\ search_result.op = "similar"
   /\ products[search_result.product_id].embedding # NoEmbedding)
  => LET got == { search_result.products[k] : k \in DOMAIN search_result.products }
         others == SimilarOthers(search_result.product_id)
     IN /\ search_result.product_id \notin got
        /\ got \subseteq others
        /\ Len(search_result.products) =
             IF Cardinality(others) < search_result.limit
               THEN Cardinality(others) ELSE search_result.limit

(* ------------------------------- C16 ---------------------------------- *)

\* C16: a run of the embedding job leaves every selected product it got
\* no vector for as it was (embedding, model, embedding timestamp and
\* every other column, so no failure is recorded on it), and the product
\* still matches the job's selection filter.
C16_NoVectorLeftPending ==
  [][ job'.run # job.run
      => \A i \in DOMAIN job'.selected :
           i \notin DOMAIN job'.embeddings
           => LET id == job'.selected[i]
              IN /\ products'[id].embedding = products[id].embedding
                 /\ products'[id].embedding_model = products[id].embedding_model
                 /\ products'[id].embedding_updated_at =
                      products[id].embedding_updated_at
                 /\ products'[id] = products[id]
                 /\ needs_embedding_update(products'[id]) ]_vars

\* of two selected products the service answered for the first only: the
\* first has its embedding, the second is still without
C16_Witness ==
  /\ job.available
  /\ Len(job.selected) = 2
  /\ DOMAIN job.embeddings = {1}
  /\ job.processed = {job.selected[1]}
  /\ products[job.selected[1]].embedding # NoEmbedding
  /\ products[job.selected[2]].embedding = NoEmbedding
  /\ products[job.selected[2]].embedding_updated_at = NoTime

(* ------------------------------- C17 ---------------------------------- *)

\* C17: a re-scrape that leaves the name of a Product with a current
\* embedding as it was (the records carry no description or details) does
\* not make the Product stale for the embedding job.
C17_RescrapeKeepsEmbeddingCurrent ==
  [][ (/\ ItemStep
       /\ last'.outcome = "saved"
       /\ last'.existing # NoId
       /\ last'.rec.name = products[last'.existing].name
       /\ ~needs_embedding_update(products[last'.existing]))
      => ~needs_embedding_update(products'[last'.existing]) ]_vars

(* ------------------------------- C18 ---------------------------------- *)

\* C18: a record reconciled against an existing Product whose name equals
\* the stored name (the record carries no description or details) leaves
\* the Product's search_text as it was, whatever its category or
\* manufacturer.
C18_SearchTextKeptWhenContentUnchanged ==
  (/\ Saved /\ Resighted
   /\ last.rec.name = last.old.name)
  => products[last.product].search_text = last.old.search_text

(* ------------------------------- C19 ---------------------------------- *)

\* C19: after a record is reconciled against an existing Product, the
\* Product's URL, name, price, store, category and manufacturer are the
\* record's, also where the record has no value and the Product had one.
C19_ScalarFieldsOverwritten ==
  (Saved /\ Resighted)
  => /\ products[last.product].product_url = last.rec.product_url
     /\ products[last.product].name = last.rec.name
     /\ products[last.product].price_amount = last.rec.price_amount
     /\ products[last.product].store_id = last.store
     /\ products[last.product].category_id = last.category
     /\ products[last.product].manufacturer_id = last.manufacturer

(* ------------------------------- C20 ---------------------------------- *)

RECURSIVE ReachesRoot(_, _, _)
\* following parent_id from category i ends at a root within fuel steps
ReachesRoot(cats, i, fuel) ==
  IF cats[i].parent_id = NoId THEN TRUE
  ELSE IF fuel = 0 \/ cats[i].parent_id \notin DOMAIN cats THEN FALSE
  ELSE ReachesRoot(cats, cats[i].parent_id, fuel - 1)

\* level and path of every category follow from its parent's
CategoryTreeShape ==
  \A i \in DOMAIN categories :
    LET c == categories[i]
    IN /\ ReachesRoot(categories, i, Len(categories))
       /\ IF c.parent_id = NoId
            THEN c.level = 0 /\ c.path = c.name
            ELSE /\ c.level = categories[c.parent_id].level + 1
                 /\ c.path =
                      categories[c.parent_id].path \o <<"/">> \o c.name

\* C20: every category has level 0 and path = name without a parent, and
\* level = parent.level + 1, path = parent.path + "/" + name with one; the
\* parent relation is acyclic; no step changes an existing category.
C20_CategoryTree ==
  /\ []CategoryTreeShape
  /\ [][ \A i \in DOMAIN categories :
           i \in DOMAIN categories' /\ categories'[i] = categories[i] ]_vars

\* Obst/Bio is stored below Obst, and a later item has been reconciled
C20_Witness ==
  /\ \E i \in DOMAIN categories :
       /\ categories[i].parent_id # NoId
       /\ categories[i].level = 1
       /\ categories[i].path = Obst \o <<"/">> \o Bio
       /\ categories[categories[i].parent_id].level = 0
  /\ clock = 2

(* ------------------------------- C21 ---------------------------------- *)

\* C21: a record with a manufacturer name, reconciled without a database
\* fault, leaves its Product referencing the Manufacturer of exactly that
\* name, and no two Manufacturers have the same name.
C21_ManufacturerIsExactName ==
  /\ \A i, j \in DOMAIN manufacturers :
       manufacturers[i].name = manufacturers[j].name => i = j
  /\ (/\ Saved
      /\ last.fail = NoFault
      /\ last.rec.manufacturer_name # NoText)
     => /\ products[last.product].manufacturer_id # NoId
        /\ manufacturers[products[last.product].manufacturer_id].name =
             last.rec.manufacturer_name

(* ------------------------------- C27 ---------------------------------- *)

\* C27: a record without a price reconciled against an existing Product
\* leaves price_amount and last_price_update as stored, has price_changed
\* = false, and raises scrape_count by one.
C27_NullPriceKeepsStoredPrice ==
  (/\ Saved /\ Resighted
   /\ last.rec.price_amount = NoPrice)
  => /\ products[last.product].price_amount = last.old.price_amount
     /\ products[last.product].last_price_update = last.old.last_price_update
     /\ last.price_changed = FALSE
     /\ products[last.product].scrape_count = last.old.scrape_count + 1

\* a Product stored at 1,29 has been seen again without a price
C27_Witness ==
  /\ Saved /\ Resighted
  /\ last.rec.price_amount = NoPrice
  /\ last.old.price_amount = 129
  /\ products[last.product].price_amount = 129
  /\ products[last.product].last_price_update = 1
  /\ products[last.product].scrape_count = 2

(* ------------------------------- C28 ---------------------------------- *)

\* every cache entry holds an id the database gave to an entity with the
\* entry's natural key (the entity may have been deleted since)
CacheEntriesSound ==
  /\ \A key \in DOMAIN store_cache :
       /\ store_cache[key] \in DOMAIN stores
       /\ Live(stores, store_cache[key])
            => key = stores[store_cache[key]].name \o <<":">>
                       \o stores[store_cache[key]].slug
  /\ \A key \in DOMAIN category_cache :
       /\ category_cache[key] \in DOMAIN categories
       /\ Live(categories, category_cache[key])
            => /\ categories[category_cache[key]].slug = key.slug
               /\ categories[category_cache[key]].level = key.level
               /\ categories[category_cache[key]].parent_id = key.parent
  /\ \A key \in DOMAIN manufacturer_cache :
       /\ manufacturer_cache[key] \in DOMAIN manufacturers
       /\ Live(manufacturers, manufacturer_cache[key])
            => manufacturers[manufacturer_cache[key]].name = key

TextRank(id) ==
  CHOOSE i \in DOMAIN search_result.text_results :
    search_result.text_results[i] = id
VectorRank(id) ==
  CHOOSE i \in DOMAIN search_result.vector_results :
    search_result.vector_results[i].id = id

\* weight * (N - r) / N for the 0-based rank r = position - 1, in units of
\* 1/ScoreScale (the weight is given in tenths)
PositionScore(weight, position, n) ==
  (ScoreScale * weight * (n - (position - 1))) \div (10 * n)

\* C26: in a hybrid result the text_score of a product is TextWeight *
\* (N - r) / N for its rank r among the N text results, and its
\* vector_score is VectorWeight * (N - r) / N for its rank r among the N
\* vector results (0 for a stage that did not return the product).
C26_StageScoresPositionBased ==
  (search_result.op = "search_products" /\ search_result.search_type = "hybrid")
  => \A k \in DOMAIN search_result.scores :
       LET e == search_result.scores[k]
       IN /\ e.text_score =
               IF e.id \in TextCandidates
                 THEN PositionScore(TextWeight, TextRank(e.id),
                                    Len(search_result.text_results))
               ELSE 0
          /\ e.vector_score =
               IF e.id \in VectorCandidates
                 THEN PositionScore(VectorWeight, VectorRank(e.id),
                                    Len(search_result.vector_results))
               ELSE 0

(* ------------------------------- C29 ---------------------------------- *)

\* hybrid_search ran and its vector stage gave no candidate
HybridWithoutVectors ==
  /\ search_result.op \in {"hybrid_search", "search_products"}
  /\ search_result.search_type = "hybrid"
  /\ search_result.vector_results = << >>

\* C29: a hybrid search whose vector stage contributes no candidate
\* returns a list search_by_text can return for the same query, filters
\* and limit (the text stage's own list cut at the limit), each product
\* with vector_score 0 and total_score = text_score.
C29_HybridWithoutVectorsIsTextSearch ==
  HybridWithoutVectors
  => /\ search_result.products \in LexicalOutputs
     /\ search_result.products =
          Limit(search_result.text_results, search_result.limit)
     /\ Len(search_result.scores) = Len(search_result.products)
     /\ \A k \in DOMAIN search_result.scores :
          /\ search_result.scores[k].id = search_result.products[k]
          /\ search_result.scores[k].vector_score = 0
          /\ search_result.scores[k].total_score =
               search_result.scores[k].text_score

\* an embedding was passed, no stored product was similar enough, and the
\* two matching products came back in the text stage's order
C29_Witness ==
  /\ HybridWithoutVectors
  /\ search_result.cause = "embedded"
  /\ \E i \in DOMAIN products : products[i].embedding # NoEmbedding
  /\ Len(search_result.products) = 2
  /\ search_result.products = search_result.text_results

(* ------------------------------- C24 ---------------------------------- *)

\* the last call was detect_availability
Detected == utility.op = "detect_availability"

\* a phrase of the list occurs in the lowered text
HasPhrase(text, patterns) ==
  \E k \in DOMAIN patterns : Contains(Lower(text), patterns[k])

\* C24: every call of detect_availability returns one of the three
\* statuses: in_stock if a positive phrase occurs (also beside a negative
\* one), else out_of_stock if a negative phrase occurs, else unknown; the
\* text returned is the trimmed input, and nothing for an input that is
\* empty (or blank).
C24_AvailabilityPrecedence ==
  Detected
  => /\ utility.result.status \in {"in_stock", "out_of_stock", "unknown"}
     /\ utility.result.status =
          IF HasPhrase(utility.input, in_stock_patterns) THEN "in_stock"
          ELSE IF HasPhrase(utility.input, out_of_stock_patterns)
            THEN "out_of_stock"
          ELSE "unknown"
     /\ utility.result.text = Strip(utility.input)
     /\ utility.input = NoText
          => utility.result = [status |-> "unknown", text |-> NoText]

\* a text with a negative and, after it, another positive phrase
C24_Witness ==
  /\ Detected
  /\ utility.input = <<"s", "o", "l", "d", " ", "o", "u", "t", " ", "a", "u", "f", " ", "l", "a", "g", "e", "r">>
  /\ utility.result.status = "in_stock"
  /\ utility.result.text = utility.input

(* ------------------------------- C30 ---------------------------------- *)

\* the negative phrases that hold no positive phrase
PlainNegatives ==
  << <<"o", "u", "t", " ", "o", "f", " ", "s", "t", "o", "c", "k">>,
     <<"a", "u", "s", "v", "e", "r", "k", "a", "u", "f", "t">>,
     <<"s", "o", "l", "d", " ", "o", "u", "t">> >>

\* the negative phrases that hold a positive phrase
ShadowedNegatives ==
  << <<"n", "i", "c", "h", "t", " ", "v", "e", "r", "f", "ü", "g", "b", "a", "r">>,
     <<"t", "e", "m", "p", "o", "r", "ä", "r", " ", "n", "i", "c", "h", "t", " ", "v", "e", "r", "f", "ü", "g", "b", "a", "r">>,
     <<"n", "i", "c", "h", "t", " ", "l", "i", "e", "f", "e", "r", "b", "a", "r">>,
     <<"n", "i", "c", "h", "t", " ", "v", "o", "r", "r", "ä", "t", "i", "g">> >>

\* C30: a call returns out_of_stock only for a text with 'out of stock',
\* 'ausverkauft' or 'sold out'; a text with 'nicht verfügbar', 'temporär
\* nicht verfügbar', 'nicht lieferbar' or 'nicht vorrätig' is in_stock.
C30_ShadowedNegativesAreInStock ==
  Detected
  => /\ utility.result.status = "out_of_stock"
          => HasPhrase(utility.input, PlainNegatives)
     /\ HasPhrase(utility.input, ShadowedNegatives)
          => utility.result.status = "in_stock"

\* 'Nicht Lieferbar' alone is reported as in stock
C30_Witness ==
  /\ Detected
  /\ utility.input = <<"N", "i", "c", "h", "t", " ", "L", "i", "e", "f", "e", "r", "b", "a", "r">>
  /\ utility.result.status = "in_stock"

(* ------------------------------- C22 ---------------------------------- *)

\* the last call was EnrichmentPipeline.process_item
Enriched == utility.op = "enrich"

\* the fields of the item the step of a helper writes
StepFields(fault) ==
  CASE fault = "parse_base_price"
         -> {"base_price_amount", "base_price_unit", "base_price_quantity"}
    [] fault = "generate_sku_from_url" -> {"sku"}
    [] fault = "extract_manufacturer_from_name" -> {"manufacturer_name"}
    [] fault = "extract_product_details" -> {"details"}
    [] fault = "detect_availability" -> {"in_stock", "availability_text"}
    [] fault = "create_store_slug" -> {"store_slug"}
    [] OTHER -> {}

\* C22: when the helper of one enrichment step raises, the stage returns
\* the item, the fields of every other step are as after an enrichment
\* without the exception (the other steps ran), and the fields of the
\* failed step are as the item came.
C22_EnrichmentBestEffort ==
  Enriched
  => LET plain == EnrichmentPipeline_process_item(utility.input, "none", clock)
         got == utility.result
     IN /\ got.returned
        /\ "items_enriched" \in got.counted
        /\ \A f \in DOMAIN got.item :
             IF f \in StepFields(utility.fault)
               THEN got.item[f] \in {utility.input[f], plain.item[f]}
             ELSE got.item[f] = plain.item[f]

\* generate_sku_from_url raised for an item without SKU: the SKU is still
\* missing, the manufacturer, the availability and the store slug are there
C22_Witness ==
  /\ Enriched
  /\ utility.fault = "generate_sku_from_url"
  /\ utility.input.sku = NoText
  /\ utility.result.item.sku = NoText
  /\ utility.input.manufacturer_name = NoText
  /\ utility.result.item.manufacturer_name = Milch
  /\ utility.input.in_stock = "unknown"
  /\ utility.result.item.in_stock = "in_stock"
  /\ utility.input.store_slug = NoText
  /\ utility.result.item.store_slug = <<"e", "-", "2", "4">>
  /\ utility.result.item.needs_embedding

(* ------------------------------- C23 ---------------------------------- *)

\* C23: parse_base_price returns amount, quantity and unit all three or
\* none of them, and the enrichment step either leaves base_price_amount,
\* base_price_unit and base_price_quantity as they came or sets all three
\* to what parse_base_price returned.
C23_BasePriceTripleAtomic ==
  /\ utility.op = "parse_base_price"
       => /\ utility.result.quantity.valid = utility.result.amount.valid
          /\ (utility.result.unit # NoText) = utility.result.amount.valid
  /\ Enriched
       => LET was == utility.input
              now == utility.result.item
              parsed == parse_base_price(was.base_price_text)
          IN \/ /\ now.base_price_amount = was.base_price_amount
                /\ now.base_price_unit = was.base_price_unit
                /\ now.base_price_quantity = was.base_price_quantity
             \/ /\ parsed.amount.valid /\ parsed.quantity.valid
                /\ now.base_price_amount = Float(parsed.amount)
                /\ now.base_price_unit = parsed.unit
                /\ now.base_price_unit # NoText
                /\ now.base_price_quantity = Float(parsed.quantity)

\* '2.50 € PER 0,50 Liter)' parses to 2.50 for 0.50 L
C23_Witness ==
  /\ utility.op = "parse_base_price"
  /\ utility.input = <<"2", ".", "5", "0", " ", "€", " ", "P", "E", "R", " ", "0", ",", "5", "0", " ", "L", "i", "t", "e", "r", ")">>
  /\ utility.result.amount = [valid |-> TRUE, digits |-> 250, scale |-> 2]
  /\ utility.result.quantity = [valid |-> TRUE, digits |-> 50, scale |-> 2]
  /\ utility.result.unit = <<"L">>

(* ------------------------------- C25 ---------------------------------- *)

\* the positions of a call in the list of calls
CallsOf(name) ==
  { i \in DOMAIN utility.result.calls : utility.result.calls[i] = name }

\* C25: a use of the session scope whose block returns and whose commit
\* succeeds makes the calls commit, close and returns; every other use
\* (the block raises, or the commit fails) calls rollback once, after the
\* commit attempt if there was one, and raises to the caller; close is
\* called once, as the last call, in every case.
C25_SessionScope ==
  utility.op = "get_session"
  => LET use == utility.input
         got == utility.result
         n == Len(got.calls)
     IN /\ CallsOf("close") = {n}
        /\ IF use.block = "return" /\ ~use.commit_fails
             THEN /\ got.calls = <<"commit", "close">>
                  /\ got.outcome = "returned"
           ELSE /\ CallsOf("rollback") = {n - 1}
                /\ CallsOf("commit") =
                     IF use.block = "return" THEN {1} ELSE {}
                /\ got.outcome = "raised"

\* the block returned, the commit failed: commit, rollback, close, and
\* the commit's exception reaches the caller
C25_Witness ==
  /\ utility.op = "get_session"
  /\ utility.input.block = "return"
  /\ utility.input.commit_fails
  /\ utility.result.calls = <<"commit", "rollback", "close">>
  /\ utility.result.outcome = "raised"
  /\ utility.result.error = "commit"

====
